---- MODULE Spec2Model ----
(***************************************************************************)
(* Model of yuppy's "encapsulate" variant (src/yuppy.py): attribute        *)
(* descriptors (constant, variable, method and their static forms), the    *)
(* visibility wrappers, and the encapsulate() class decorator that puts an *)
(* external Object in front of an internal instance of the raw class.      *)
(*                                                                         *)
(* The classes the model runs are the fixture classes of src/tests.py plus *)
(* a few subclasses of them of the same shape.                             *)
(***************************************************************************)
EXTENDS Integers, Sequences, FiniteSets, TLC

\* ------------------------------------------------------------------------
\* Bounds
\* ------------------------------------------------------------------------
\* Number of instance slots (objects constructed in one run).
MaxInst == 2

\* ------------------------------------------------------------------------
\* Python values.  A value is a record [t, n]:
\*   int   n          the integer n
\*   str   n >= 0     the decimal text of n ("1", "2", ...)
\*   str   n <  0     a text that is not a number (-1: 'foo', -2: 'bar',
\*                    -3: 'baz')
\*   float n >= 0     the float n/10 (15 is 1.5)
\*   float n <  0     float('inf')
\*   none             None
\*   callable         a bound method (n is unused)
\*   class            the class of an internal object, instance.__private__.__class__
\*                    (n is unused)
\*   object n         the internal object of instance n
\*   unset            no value (a missing dictionary key)
\* ------------------------------------------------------------------------
IntV(n) == [t |-> "int", n |-> n]
StrV(n) == [t |-> "str", n |-> n]
FloatV(n) == [t |-> "float", n |-> n]
NoneV == [t |-> "none", n |-> 0]
Unset == [t |-> "unset", n |-> 0]
CallableV == [t |-> "callable", n |-> 0]
ClassV == [t |-> "class", n |-> 0]
ObjectV(i) == [t |-> "object", n |-> i]
Inf == FloatV(-1)
Foo == StrV(-1)
Bar == StrV(-2)
Baz == StrV(-3)

\* Values the callers assign.
InputValues == {IntV(1), IntV(2), StrV(1), StrV(2), Foo, FloatV(15), Inf, NoneV}

\* Results of an operation: err = "none" is a normal return of val.  An
\* err "TypeError", "ValueError" or "OverflowError" is that exception, raised
\* by Python; every other err is an AttributeError raised by the code:
\*   visibility  encapsulate.call refused the access
\*   missing     a variable without stored value and without default
\*   invalid     _validate refused the value
\*   constant    _Constant.__set__
\*   nodelete    the descriptors define __set__ but no __delete__
\*   noattr      the name resolves to nothing
Ok(v) == [err |-> "none", val |-> v]
Raise(e) == [err |-> e, val |-> Unset]
AttributeErrors ==
  {"visibility", "missing", "invalid", "constant", "nodelete", "noattr", "abstract",
   "override"}
IsAttributeError(r) == r.err \in AttributeErrors

\* ------------------------------------------------------------------------
\* Attribute objects
\* ------------------------------------------------------------------------
Names == {"foo", "getfoo", "setfoo", "extfoo", "extset"}

\* An entry of a class __dict__.  kind "absent" is a missing key, kind
\* "func" a plain function (it has no __visibility__), kind "kwargs" the
\* keyword arguments of a variable declaration before a wrapper is applied.
NoAttr ==
  [kind |-> "absent", vis |-> "none", type |-> "none", validate |-> FALSE,
   hasdefault |-> FALSE, default |-> NoneV, value |-> NoneV,
   body |-> "none", target |-> "none", name |-> "None"]

\* def f(self, ...): a function whose body is one of
\*   get      return self.<target>
\*   set      self.<target> = value
\*   call     return self.<target>()
\*   ret      return 'bar'
\*   retself  return self
function(body, target) == [NoAttr EXCEPT !.kind = "func", !.body = body, !.target = target]

\* Keyword arguments default=, type=, validate= of a variable declaration;
\* the validators of the fixtures are all lambda x: x == 1.
Kwargs(hasdefault, default, type, validate) ==
  [NoAttr EXCEPT !.kind = "kwargs", !.hasdefault = hasdefault, !.default = default,
                 !.type = type, !.validate = validate]

const(value) == [NoAttr EXCEPT !.kind = "const", !.vis = "public", !.value = value]

\* public / protected / private: the visibility wrappers.
Wrap(vis, a) ==
  CASE a.kind = "func" -> [a EXCEPT !.kind = "method", !.vis = vis]
    [] a.kind = "smethod" -> [a EXCEPT !.vis = vis]
    [] a.kind = "method" -> [a EXCEPT !.vis = vis]
    [] a.kind = "const" -> [a EXCEPT !.vis = vis]
    [] a.kind \in {"var", "svar"} -> [a EXCEPT !.kind = "var", !.vis = vis]
    [] a.kind = "kwargs" -> [a EXCEPT !.kind = "var", !.vis = vis]
    [] OTHER -> NoAttr
public(a) == Wrap("public", a)
protected(a) == Wrap("protected", a)
private(a) == Wrap("private", a)

\* static: the class-scope wrapper. An argument that is none of a function, a
\* method or an instance variable reaches isinstance(args[0], Constant), and
\* the module defines no name Constant: NameError.
Undefined == [NoAttr EXCEPT !.kind = "NameError"]
static(a) ==
  CASE a.kind = "func" -> [a EXCEPT !.kind = "smethod", !.vis = "public"]
    [] a.kind = "method" -> [a EXCEPT !.kind = "smethod"]
    [] a.kind = "var" -> [a EXCEPT !.kind = "svar"]
    [] a.kind = "kwargs" -> [a EXCEPT !.kind = "svar", !.vis = "public"]
    [] OTHER -> Undefined

\* ------------------------------------------------------------------------
\* The classes of the program
\* ------------------------------------------------------------------------
\* A family is one set of class statements run together.
Families ==
  {"constant", "pubvar", "pubmeth", "protvar", "protmeth", "privvar", "privmeth", "static",
   "shared", "apart", "initialized",
   "redeclared", "unnamed"}

Classes ==
  {"Constant", "PrivateConstant", "PublicVariable", "PublicMethod", "PublicStaticMethod",
   "ProtectedVariable", "ExtendedVariable", "PlainVariable",
   "ProtectedMethod", "ExtendedMethod",
   "PrivateVariable", "ExtendedPrivate",
   "PrivateMethod", "ExtendedPrivateMethod",
   "PublicStaticVariable", "PrivateStaticVariable", "PrivateStaticMethod",
   "StaticVariable", "ExtendedStatic", "OverridingStatic",
   "OtherStatic", "UnrelatedStatic",
   "PrivateInitialized", "ProtectedInitialized", "PublicInitialized",
   "Shadowed", "Redeclaring", "Inheriting",
   "TwoVariables", "Derived", "TwoNamed"}

\* The class statement: the base class named in it, whether @encapsulate is
\* applied, and the family it belongs to.
ClassStatement(c) ==
  CASE c = "Constant" -> [base |-> "object", encapsulated |-> TRUE, family |-> "constant"]
    [] c = "PrivateConstant" -> [base |-> "object", encapsulated |-> TRUE, family |-> "constant"]
    [] c = "PublicVariable" -> [base |-> "object", encapsulated |-> TRUE, family |-> "pubvar"]
    [] c = "PublicMethod" -> [base |-> "object", encapsulated |-> TRUE, family |-> "pubmeth"]
    [] c = "PublicStaticMethod" -> [base |-> "object", encapsulated |-> TRUE, family |-> "pubmeth"]
    [] c = "ProtectedVariable" -> [base |-> "object", encapsulated |-> TRUE, family |-> "protvar"]
    [] c = "ExtendedVariable" -> [base |-> "ProtectedVariable", encapsulated |-> TRUE, family |-> "protvar"]
    [] c = "PlainVariable" -> [base |-> "ProtectedVariable", encapsulated |-> FALSE, family |-> "protvar"]
    [] c = "ProtectedMethod" -> [base |-> "object", encapsulated |-> TRUE, family |-> "protmeth"]
    [] c = "ExtendedMethod" -> [base |-> "ProtectedMethod", encapsulated |-> TRUE, family |-> "protmeth"]
    [] c = "PrivateVariable" -> [base |-> "object", encapsulated |-> TRUE, family |-> "privvar"]
    [] c = "ExtendedPrivate" -> [base |-> "PrivateVariable", encapsulated |-> TRUE, family |-> "privvar"]
    [] c = "PrivateMethod" -> [base |-> "object", encapsulated |-> TRUE, family |-> "privmeth"]
    [] c = "ExtendedPrivateMethod" -> [base |-> "PrivateMethod", encapsulated |-> TRUE, family |-> "privmeth"]
    [] c = "PublicStaticVariable" -> [base |-> "object", encapsulated |-> TRUE, family |-> "static"]
    [] c = "PrivateStaticVariable" -> [base |-> "object", encapsulated |-> TRUE, family |-> "static"]
    [] c = "PrivateStaticMethod" -> [base |-> "object", encapsulated |-> TRUE, family |-> "static"]
    [] c = "StaticVariable" -> [base |-> "object", encapsulated |-> TRUE, family |-> "shared"]
    [] c = "ExtendedStatic" -> [base |-> "StaticVariable", encapsulated |-> TRUE, family |-> "shared"]
    [] c = "OverridingStatic" -> [base |-> "StaticVariable", encapsulated |-> TRUE, family |-> "shared"]
    [] c = "OtherStatic" -> [base |-> "object", encapsulated |-> TRUE, family |-> "apart"]
    [] c = "UnrelatedStatic" -> [base |-> "object", encapsulated |-> TRUE, family |-> "apart"]
    [] c = "PrivateInitialized" -> [base |-> "object", encapsulated |-> TRUE, family |-> "initialized"]
    [] c = "ProtectedInitialized" -> [base |-> "object", encapsulated |-> TRUE, family |-> "initialized"]
    [] c = "PublicInitialized" -> [base |-> "object", encapsulated |-> TRUE, family |-> "initialized"]
    [] c = "Shadowed" -> [base |-> "object", encapsulated |-> TRUE, family |-> "redeclared"]
    [] c = "Redeclaring" -> [base |-> "Shadowed", encapsulated |-> TRUE, family |-> "redeclared"]
    [] c = "Inheriting" -> [base |-> "Redeclaring", encapsulated |-> TRUE, family |-> "redeclared"]
    [] c = "TwoVariables" -> [base |-> "object", encapsulated |-> FALSE, family |-> "unnamed"]
    [] c = "Derived" -> [base |-> "TwoVariables", encapsulated |-> TRUE, family |-> "unnamed"]
    [] c = "TwoNamed" -> [base |-> "object", encapsulated |-> TRUE, family |-> "unnamed"]
    [] OTHER -> [base |-> "object", encapsulated |-> FALSE, family |-> "none"]

\* The class statements, tabulated.
Decl == [c \in Classes \cup {"object"} |-> ClassStatement(c)]

\* type=int, validate=lambda x: x == 1 (and default=2 for PublicVariable).
IntIsOne == Kwargs(FALSE, NoneV, "int", TRUE)
IntIsOneDefault == Kwargs(TRUE, IntV(2), "int", TRUE)

\* The class body: the entry each class statement binds to a name.
\* ExtendedVariable.extset, ExtendedPrivate and ExtendedPrivateMethod are
\* subclasses written after the pattern of ExtendedVariable / ExtendedMethod;
\* StaticVariable is PublicStaticVariable with the getfoo of
\* PrivateVariable, ExtendedStatic inherits its foo and OverridingStatic
\* declares a static foo of its own; OtherStatic and UnrelatedStatic are two
\* more copies of PublicStaticVariable; PrivateInitialized,
\* ProtectedInitialized and PublicInitialized are PrivateVariable,
\* ProtectedVariable and PublicVariable without setfoo, each with an
\* initializer (Initializer below); Shadowed declares the private constant
\* foo of PrivateConstant, Redeclaring derives from it and declares the
\* public variable foo of PublicVariable, and Inheriting derives from
\* Redeclaring with an empty body; TwoVariables is a class without decorator
\* that declares the variable of PublicVariable twice, as foo and as extfoo,
\* Derived derives from it with an empty body, and TwoNamed is TwoVariables
\* with the decorator.
ClassBody(c, n) ==
  CASE c = "Constant" /\ n = "foo" -> const(Bar)
    [] c = "PrivateConstant" /\ n = "foo" -> private(const(Bar))
    [] c = "PrivateConstant" /\ n = "getfoo" -> function("get", "foo")
    [] c = "PublicVariable" /\ n = "foo" -> public(IntIsOneDefault)
    [] c = "PublicMethod" /\ n = "foo" -> public(function("ret", "none"))
    [] c = "PublicStaticMethod" /\ n = "foo" -> static(public(function("retself", "none")))
    [] c = "ProtectedVariable" /\ n = "foo" -> protected(IntIsOne)
    [] c = "ProtectedVariable" /\ n = "setfoo" -> public(function("set", "foo"))
    [] c = "ProtectedVariable" /\ n = "getfoo" -> public(function("get", "foo"))
    [] c = "ExtendedVariable" /\ n = "extfoo" -> public(function("get", "foo"))
    [] c = "ExtendedVariable" /\ n = "extset" -> public(function("set", "foo"))
    [] c = "ProtectedMethod" /\ n = "foo" -> protected(function("ret", "none"))
    [] c = "ProtectedMethod" /\ n = "getfoo" -> function("call", "foo")
    [] c = "ExtendedMethod" /\ n = "extfoo" -> public(function("call", "foo"))
    [] c = "PrivateVariable" /\ n = "foo" -> private(IntIsOne)
    [] c = "PrivateVariable" /\ n = "setfoo" -> function("set", "foo")
    [] c = "PrivateVariable" /\ n = "getfoo" -> function("get", "foo")
    [] c = "ExtendedPrivate" /\ n = "extfoo" -> public(function("get", "foo"))
    [] c = "ExtendedPrivate" /\ n = "extset" -> public(function("set", "foo"))
    [] c = "PrivateMethod" /\ n = "foo" -> private(function("ret", "none"))
    [] c = "PrivateMethod" /\ n = "getfoo" -> function("call", "foo")
    [] c = "ExtendedPrivateMethod" /\ n = "extfoo" -> public(function("call", "foo"))
    [] c = "PublicStaticVariable" /\ n = "foo" -> static(public(IntIsOne))
    [] c = "PrivateStaticVariable" /\ n = "foo" -> static(private(IntIsOne))
    [] c = "PrivateStaticMethod" /\ n = "foo" -> static(private(function("retself", "none")))
    [] c = "StaticVariable" /\ n = "foo" -> static(public(IntIsOne))
    [] c = "StaticVariable" /\ n = "getfoo" -> function("get", "foo")
    [] c = "OverridingStatic" /\ n = "foo" -> static(public(IntIsOne))
    [] c = "OtherStatic" /\ n = "foo" -> static(public(IntIsOne))
    [] c = "UnrelatedStatic" /\ n = "foo" -> static(public(IntIsOne))
    [] c = "PrivateInitialized" /\ n = "foo" -> private(IntIsOne)
    [] c = "PrivateInitialized" /\ n = "getfoo" -> function("get", "foo")
    [] c = "ProtectedInitialized" /\ n = "foo" -> protected(IntIsOne)
    [] c = "ProtectedInitialized" /\ n = "getfoo" -> public(function("get", "foo"))
    [] c = "PublicInitialized" /\ n = "foo" -> public(IntIsOne)
    [] c = "PublicInitialized" /\ n = "getfoo" -> function("get", "foo")
    [] c = "Shadowed" /\ n = "foo" -> private(const(Bar))
    [] c = "Redeclaring" /\ n = "foo" -> public(IntIsOneDefault)
    [] c = "TwoVariables" /\ n = "foo" -> public(IntIsOneDefault)
    [] c = "TwoVariables" /\ n = "extfoo" -> public(IntIsOneDefault)
    [] c = "TwoNamed" /\ n = "foo" -> public(IntIsOneDefault)
    [] c = "TwoNamed" /\ n = "extfoo" -> public(IntIsOneDefault)
    [] OTHER -> NoAttr

\* The __init__ of the class body, def __init__(self, v): self.foo = v
\* (NoAttr: the class statement has none and object.__init__ runs).
Initializer(c) ==
  IF c \in {"PrivateInitialized", "ProtectedInitialized", "PublicInitialized"}
  THEN function("set", "foo")
  ELSE NoAttr

\* apply_names(cls.__dict__) of encapsulate(cls): every _Attribute of the
\* body of the class the decorator is applied to gets its member name as
\* __name__; in the body of a class without the decorator it keeps the None
\* of _Attribute.__init__.  The keys of an instance's __dict__ are the member
\* names and None.
Keys == Names \cup {"None"}
apply_names(c, n, a) ==
  IF ClassStatement(c).encapsulated /\ a.kind \notin {"absent", "func"}
  THEN [a EXCEPT !.name = n] ELSE a

\* The class bodies, tabulated: Body[c][n] is the __dict__ entry n of the
\* class statement c.
Body == [c \in Classes |-> [n \in Names |-> apply_names(c, n, ClassBody(c, n))]]

\* ------------------------------------------------------------------------
\* Class objects after the decorators have run
\* ------------------------------------------------------------------------
\* Raw(c) is the class of the class statement, Objt(c) the class Object
\* that encapsulate(c) returns and binds to the name c.
Raw(c) == [k |-> "raw", c |-> c]
Objt(c) == [k |-> "obj", c |-> c]
ObjectT == [k |-> "builtin", c |-> "object"]
NoType == [k |-> "none", c |-> "none"]

\* __bases__.  An encapsulated class that names an encapsulated base has
\* its base replaced by the raw base class (the loop of encapsulate).
BasesOf(t) ==
  CASE t.k = "obj" -> <<Raw(t.c)>>
    [] t.k = "raw" ->
         LET b == Decl[t.c].base IN
         IF b = "object" THEN <<ObjectT>>
         ELSE IF ~Decl[b].encapsulated THEN <<Raw(b)>>
         ELSE IF Decl[t.c].encapsulated THEN <<Raw(b)>>
         ELSE <<Objt(b)>>
    [] OTHER -> <<>>

Types == {Raw(c) : c \in Classes} \cup {Objt(c) : c \in Classes} \cup {ObjectT}
Bases == [t \in Types |-> BasesOf(t)]

\* t.__dict__[n] of a raw class or of object; "absent" is a KeyError.
RawDict(t, n) == IF t.k = "raw" THEN Body[t.c][n] ELSE NoAttr

\* The attribute Python's own lookup finds for n on an instance of t: the
\* first __dict__ entry along the base chain.
RECURSIVE Resolve(_, _)
Resolve(t, n) ==
  IF t.k = "raw" /\ RawDict(t, n).kind # "absent" THEN RawDict(t, n)
  ELSE IF Bases[t] = <<>> THEN NoAttr
  ELSE Resolve(Bases[t][1], n)
Attrs == [t \in Types |-> [n \in Names |-> Resolve(t, n)]]
Lookup(t, n) == Attrs[t][n]

\* The class whose body declares what Lookup finds.
RECURSIVE Declaring(_, _)
Declaring(t, n) ==
  IF t.k = "raw" /\ RawDict(t, n).kind # "absent" THEN t.c
  ELSE IF Bases[t] = <<>> THEN "object"
  ELSE Declaring(Bases[t][1], n)
Owners == [t \in Types |-> [n \in Names |-> Declaring(t, n)]]
Owner(t, n) == Owners[t][n]

\* ------------------------------------------------------------------------
\* The descriptors
\* ------------------------------------------------------------------------
\* isinstance(v, int)
IsInstance(v, type) == type = "int" /\ v.t = "int"

\* int(v): the result, or the exception int() raises.
Coerce(v) ==
  CASE v.t = "int" -> Ok(v)
    [] v.t = "float" -> IF v.n >= 0 THEN Ok(IntV(v.n \div 10)) ELSE Raise("OverflowError")
    [] v.t = "str" -> IF v.n >= 0 THEN Ok(IntV(v.n)) ELSE Raise("ValueError")
    [] OTHER -> Raise("TypeError")

\* lambda x: x == 1
Validator(v) == v = IntV(1)

\* _Variable._validate: the value to store, or AttributeError.
Coerced(r) ==
  IF r.err = "none" THEN Ok(r.val)
  ELSE IF r.err \in {"TypeError", "ValueError"} THEN Raise("invalid")
  ELSE r

_validate(a, v) ==
  IF a.type # "none" /\ ~IsInstance(v, a.type)
  THEN Coerced(Coerce(v))
  ELSE IF a.validate /\ ~Validator(v) THEN Raise("invalid")
  ELSE Ok(v)

\* The kinds whose class defines __set__ (data descriptors).
DataKinds == {"var", "svar", "const"}

\* The state an operation works on: d the instance dictionaries of the
\* internal objects, s the __value__ of the static variables.  An operation
\* yields its result and the state it leaves.
Out(r, d, s) == [res |-> r, d |-> d, s |-> s]

\* Mutant of GetAttr: every instance reads the dictionary of the first one.
GetAttrShared(d, s, i, t, n, a) ==
  CASE a.kind = "var" ->
         IF d[1][n] # Unset THEN Ok(d[1][n])
         ELSE IF a.hasdefault THEN Ok(a.default) ELSE Raise("missing")
    [] a.kind = "svar" ->
         IF s[<<Owner(t, n), n>>] # Unset THEN Ok(s[<<Owner(t, n), n>>])
         ELSE IF a.hasdefault THEN Ok(a.default) ELSE Raise("missing")
    [] a.kind = "const" -> Ok(a.value)
    [] OTHER ->
         IF d[i][n] # Unset THEN Ok(d[i][n])
         ELSE IF a.kind \in {"method", "smethod", "func"} THEN Ok(CallableV)
         ELSE Raise("noattr")

\* Mutant of GetAttr: a variable without value and default reads None.
GetAttrNone(d, s, i, t, n, a) ==
  CASE a.kind = "var" ->
         IF d[i][n] # Unset THEN Ok(d[i][n])
         ELSE IF a.hasdefault THEN Ok(a.default) ELSE Ok(NoneV)
    [] a.kind = "svar" ->
         IF s[<<Owner(t, n), n>>] # Unset THEN Ok(s[<<Owner(t, n), n>>])
         ELSE IF a.hasdefault THEN Ok(a.default) ELSE Ok(NoneV)
    [] a.kind = "const" -> Ok(a.value)
    [] OTHER ->
         IF d[i][n] # Unset THEN Ok(d[i][n])
         ELSE IF a.kind \in {"method", "smethod", "func"} THEN Ok(CallableV)
         ELSE Raise("noattr")

\* _Variable.__get__ / _StaticVariable.__get__ / _Constant.__get__ /
\* _Method.__get__ on the instance i of class t, as getattr(i, n) reaches
\* them.
GetAttr(d, s, i, t, n, a) ==
  CASE a.kind = "var" ->
         IF d[i][a.name] # Unset THEN Ok(d[i][a.name])
         ELSE IF a.hasdefault THEN Ok(a.default) ELSE Raise("missing")
    [] a.kind = "svar" ->
         IF s[<<Owner(t, n), n>>] # Unset THEN Ok(s[<<Owner(t, n), n>>])
         ELSE IF a.hasdefault THEN Ok(a.default) ELSE Raise("missing")
    [] a.kind = "const" -> Ok(a.value)
    [] OTHER ->
         IF d[i][n] # Unset THEN Ok(d[i][n])
         ELSE IF a.kind \in {"method", "smethod", "func"} THEN Ok(CallableV)
         ELSE Raise("noattr")

Get(d, s, i, t, n) == GetAttr(d, s, i, t, n, Lookup(t, n))

\* _Variable.__set__ / _StaticVariable.__set__ / _Constant.__set__ as
\* setattr(i, n, v) reaches them; a name without data descriptor is stored
\* in the instance dictionary.
\* Mutant of Store: the values of all instances go into one dictionary.
StoreShared(d, s, i, t, n, a, r) ==
  IF r.err # "none" THEN Out(r, d, s)
  ELSE IF a.kind = "svar" THEN Out(Ok(NoneV), d, [s EXCEPT ![<<Owner(t, n), n>>] = r.val])
  ELSE Out(Ok(NoneV), [d EXCEPT ![1][n] = r.val], s)

\* Mutant of Store: a static variable keeps its value on the instance.
StorePerInstance(d, s, i, t, n, a, r) ==
  IF r.err # "none" THEN Out(r, d, s)
  ELSE Out(Ok(NoneV), [d EXCEPT ![i][n] = r.val], s)

\* The store of a value that passed _validate (r), or its AttributeError.
Store(d, s, i, t, n, a, r) ==
  IF r.err # "none" THEN Out(r, d, s)
  ELSE IF a.kind = "svar" THEN Out(Ok(NoneV), d, [s EXCEPT ![<<Owner(t, n), n>>] = r.val])
  ELSE IF a.kind = "var" THEN Out(Ok(NoneV), [d EXCEPT ![i][a.name] = r.val], s)
  ELSE Out(Ok(NoneV), [d EXCEPT ![i][n] = r.val], s)

\* Mutant of SetAttr: an assignment to a constant is stored on the instance.
SetAttrConstant(d, s, i, t, n, v, a) ==
  CASE a.kind \in {"var", "svar"} -> Store(d, s, i, t, n, a, _validate(a, v))
    [] OTHER -> Store(d, s, i, t, n, a, Ok(v))

\* Mutant of SetAttr: the value is stored before it is validated.
SetAttrStoreFirst(d, s, i, t, n, v, a) ==
  CASE a.kind \in {"var", "svar"} ->
         IF _validate(a, v).err = "none" THEN Store(d, s, i, t, n, a, _validate(a, v))
         ELSE Out(_validate(a, v), Store(d, s, i, t, n, a, Ok(v)).d,
                  Store(d, s, i, t, n, a, Ok(v)).s)
    [] a.kind = "const" -> Out(Raise("constant"), d, s)
    [] OTHER -> Store(d, s, i, t, n, a, Ok(v))

SetAttr(d, s, i, t, n, v, a) ==
  CASE a.kind \in {"var", "svar"} -> Store(d, s, i, t, n, a, _validate(a, v))
    [] a.kind = "const" -> Out(Raise("constant"), d, s)
    [] OTHER -> Store(d, s, i, t, n, a, Ok(v))

Set(d, s, i, t, n, v) == SetAttr(d, s, i, t, n, v, Lookup(t, n))

\* delattr(i, n): the descriptor classes define __del__, not __delete__, so
\* deleting through a data descriptor raises AttributeError.
Delete(d, s, i, t, n) ==
  IF Lookup(t, n).kind \in DataKinds THEN Out(Raise("nodelete"), d, s)
  ELSE IF d[i][n] # Unset THEN Out(Ok(NoneV), [d EXCEPT ![i][n] = Unset], s)
  ELSE Out(Raise("noattr"), d, s)

\* The body of a function run with self bound to the instance i of class t
\* (_Method.__get__.instancemethod), or to the class t for a static method
\* (_StaticMethod.__get__.staticmethod).
RunLeaf(d, s, i, t, a, v) ==
  CASE a.body = "get" -> Out(Get(d, s, i, t, a.target), d, s)
    [] a.body = "set" -> Set(d, s, i, t, a.target, v)
    [] a.body = "ret" -> Out(Ok(Bar), d, s)
    [] a.body = "retself" -> Out(Ok(IF a.kind = "smethod" THEN ClassV ELSE ObjectV(i)), d, s)
    [] OTHER -> Out(Raise("TypeError"), d, s)

\* self.<target>(): the read, then the call of what it returned.
CallGot(d, s, i, t, a, v, got) ==
  IF got.err # "none" THEN Out(got, d, s)
  ELSE IF got.val # CallableV THEN Out(Raise("TypeError"), d, s)
  ELSE RunLeaf(d, s, i, t, a, v)

\* Mutant of Run: the body runs against the external object, so its use
\* of a protected or private member is refused.
RunOutside(d, s, i, t, a, v) ==
  IF a.body \in {"get", "set", "call"} /\ Lookup(t, a.target).vis \in {"protected", "private"}
  THEN Out(Raise("visibility"), d, s)
  ELSE IF a.body = "call"
  THEN CallGot(d, s, i, t, Lookup(t, a.target), v, Get(d, s, i, t, a.target))
  ELSE RunLeaf(d, s, i, t, a, v)

Run(d, s, i, t, a, v) ==
  IF a.body = "call"
  THEN CallGot(d, s, i, t, Lookup(t, a.target), v, Get(d, s, i, t, a.target))
  ELSE RunLeaf(d, s, i, t, a, v)

\* ------------------------------------------------------------------------
\* encapsulate
\* ------------------------------------------------------------------------
\* find_definition(cls): the entry of the first base class that has one.
RECURSIVE find_definition(_, _)
find_definition(t, n) ==
  IF Bases[t] = <<>> THEN NoAttr
  ELSE IF RawDict(Bases[t][1], n).kind # "absent" THEN RawDict(Bases[t][1], n)
  ELSE find_definition(Bases[t][1], n)

\* Mutant of get_definition: the bases before cls.__dict__.
get_definitionBasesFirst(selfdict, cls, n) ==
  IF selfdict[n] # Unset THEN [NoAttr EXCEPT !.kind = "value", !.value = selfdict[n]]
  ELSE IF find_definition(Raw(cls), n).kind # "absent" THEN find_definition(Raw(cls), n)
  ELSE Body[cls][n]

\* get_definition(self, name) in the closure of encapsulate(cls): the
\* external object's own __dict__ first (a plain value there has no
\* __visibility__), then cls.__dict__, then the bases; "absent" is the
\* AttributeError it raises.
get_definition(selfdict, cls, n) ==
  IF selfdict[n] # Unset THEN [NoAttr EXCEPT !.kind = "value", !.value = selfdict[n]]
  ELSE IF Body[cls][n].kind # "absent" THEN Body[cls][n]
  ELSE find_definition(Raw(cls), n)

\* Mutant of get_visibility: a definition without __visibility__ is private.
get_visibilityStrict(a) == IF a.vis = "none" THEN "private" ELSE a.vis

\* get_visibility(self, name), given the definition.
get_visibility(a) == IF a.vis = "none" THEN "public" ELSE a.vis

\* is_child(self, _cls) in the closure of encapsulate(cls).
RECURSIVE find_root(_, _)
find_root(cls, t) ==
  IF \E k \in 1..Len(Bases[t]) : Bases[t][k] = Objt(cls) THEN find_root(cls, Objt(cls)) ELSE t
is_child(cls, t) ==
  \E k \in 1..Len(Bases[find_root(cls, t)]) : Bases[find_root(cls, t)][k] = Raw(cls)

\* call(self, callback, attr, *args): "forward" when the callback is applied
\* to self.__private__, otherwise the AttributeError raised.  selfclass is
\* self.__class__.
Verdict(selfclass, cls, a) ==
  IF a.kind = "absent" THEN "noattr"
  ELSE IF get_visibility(a) = "public" THEN "forward"
  ELSE IF get_visibility(a) = "protected"
       THEN IF selfclass # Objt(cls) /\ is_child(cls, selfclass) THEN "forward" ELSE "visibility"
  ELSE "visibility"

call(selfdict, selfclass, cls, n) == Verdict(selfclass, cls, get_definition(selfdict, cls, n))

\* The class Object whose __getattribute__ / __setattr__ / __delattr__ an
\* instance of t uses: Object itself, or the one a plain subclass inherits.
RECURSIVE Wrapper(_)
Wrapper(t) ==
  IF t.k = "obj" THEN t.c
  ELSE IF Bases[t] = <<>> THEN "none"
  ELSE Wrapper(Bases[t][1])

\* The classes that can be instantiated from outside: the name of an
\* encapsulated class is bound to its Object.
External(c) == IF Decl[c].encapsulated THEN Objt(c) ELSE Raw(c)

\* Object.__init__(self, v) for an instance i of the encapsulated class c:
\* cls(v) constructs the internal object, the initializer of the class
\* body running with self bound to it; then super(Object, self).__init__(v)
\* runs the same initializer with self bound to the external object, whose
\* assignment goes through Object.__setattr__ and call.  An exception
\* leaves no instance behind (d is kept), a static variable keeps what the
\* initializer stored.
ObjectInit(d, s, i, c, v) ==
  LET a == Initializer(c)
      t == Raw(Wrapper(External(c)))
  IN IF a = NoAttr THEN Out(Ok(NoneV), d, s) ELSE
     LET inner == Run(d, s, i, t, a, v) IN
     IF inner.res.err # "none" THEN Out(inner.res, d, inner.s) ELSE
     LET verdict == call([n \in Names |-> Unset], External(c), Wrapper(External(c)), a.target)
         outer == Set(inner.d, inner.s, i, t, a.target, v)
     IN IF verdict # "forward" THEN Out(Raise(verdict), d, inner.s)
        ELSE IF outer.res.err # "none" THEN Out(outer.res, d, outer.s)
        ELSE outer

\* ------------------------------------------------------------------------
\* Class modifiers and interfaces: final, abstract, interface, implements,
\* instanceof, of yuppy.py and of yuppy/core.py
\* ------------------------------------------------------------------------
\* The class statements of a program, in the order they are executed.
MaxDef == 3
DefIds == 1..MaxDef
\* The class statements of a program that declares interfaces.
MaxConf == 2

\* The module the program imports.  The classes of a program that imports
\* yuppy/core.py derive from its Object, whose metaclass is ObjectType.
Variants == {"encapsulate", "metaclass"}

MemberNames == {"foo", "bar"}
\* The names of a class's __dict__: those of the members and one that begins
\* and ends with two underscores.
IsDunder(n) == n \in {"__baz__"}
ClassNames == MemberNames \cup {"__baz__"}
TrueV == [t |-> "bool", n |-> 1]
FalseV == [t |-> "bool", n |-> 0]

\* An entry of a class body: a def ("method"), a def decorated with abstract
\* or final of yuppy/core.py, a variable(...) of yuppy/core.py, a value that
\* is not callable, or nothing.
\* impl names the object the entry holds: the one the body of class impl
\* created (0: none).
Entry(kind, impl) == [kind |-> kind, impl |-> impl]
NoEntry == Entry("absent", 0)
ClassDict(foo, bar, c) ==
  [n \in ClassNames |->
     LET k == IF n = "foo" THEN foo ELSE IF n = "bar" THEN bar ELSE "absent" IN
     IF k = "absent" THEN NoEntry ELSE Entry(k, c)]

\* What a class statement with its decorator leaves behind.  mark is the
\* decorator on the class; abstract is the __abstract__ entry of the __dict__
\* of a class of yuppy/core.py; own tells that the class (the Object of an
\* encapsulated class) has an __interfaces__ entry of its own, ifaces.
Definition(base, mark, dict, abstract) ==
  [base |-> base, mark |-> mark, dict |-> dict, abstract |-> abstract,
   own |-> FALSE, ifaces |-> {}]
NoDef == [base |-> 0, mark |-> "undefined", dict |-> [n \in ClassNames |-> NoEntry],
          abstract |-> FALSE, own |-> FALSE, ifaces |-> {}]

\* The interfaces the program declares:
\*   @interface class I: def foo(self)     @interface class J: def foo(self); def bar(self)
\* (class I(Interface), class J(Interface) with yuppy/core.py).
Interfaces == {"I", "J"}
InterfaceBody ==
  [I \in Interfaces |-> [n \in MemberNames |->
     IF I = "J" \/ n = "foo" THEN "def" ELSE "absent"]]

\* interface(cls) of yuppy.py replaces every entry whose name is not
\* __dunder__ by an _AbstractAttribute.  InterfaceType.__init__ of
\* yuppy/core.py puts the AbstractMethod in the attrs it was handed, after
\* type.__new__ has copied them into the class: the class keeps the functions.
interface(v, body) ==
  [n \in MemberNames |->
     IF body[n] = "absent" THEN "absent"
     ELSE IF v = "encapsulate" THEN "abstract" ELSE "function"]

\* cls.__mro__ of a class with single inheritance, without object and Object.
RECURSIVE MRO(_, _)
MRO(d, c) == IF c = 0 THEN <<>> ELSE <<c>> \o MRO(d, d[c].base)
Range(s) == {s[k] : k \in DOMAIN s}

\* StaticType._findattr: the entry of the first class of the __mro__ whose
\* __dict__ has the name.
RECURSIVE _findattr(_, _, _)
_findattr(d, c, n) ==
  IF c = 0 THEN NoEntry
  ELSE IF d[c].dict[n].kind # "absent" THEN d[c].dict[n]
  ELSE _findattr(d, d[c].base, n)

\* isfinal(base) of yuppy/core.py: getattr(base, '__final__', False) finds the
\* mark final(cls) put on the class or on one of its bases.
isfinalNever(d, b) == FALSE
isfinal(d, b) ==
  \E a \in Range(MRO(d, b)) : d[a].mark = "final"

\* ObjectType.__init__, the loop over cls.__mro__: a base other than cls is
\* final.
FinalBase(d, c) == \E b \in Range(MRO(d, c)) : b # c /\ isfinal(d, b)

\* ObjectType.__init__: a base other than cls holds a FinalMethod and the
\* entry _findattr finds from cls is not the function it wraps.
FinalOverriddenNever(d, c) == FALSE
FinalOverridden(d, c) ==
  \E b \in Range(MRO(d, c)) : \E n \in MemberNames :
     /\ b # c
     /\ d[b].dict[n].kind = "final"
     /\ _findattr(d, c, n).impl # d[b].dict[n].impl

\* ObjectType.__init__: a class of the __mro__ holds an AbstractMethod and
\* the entry _findattr finds from cls is the function it wraps.
AbstractOwnOnly(d, c) == \E n \in MemberNames : d[c].dict[n].kind = "abstract"
class_isabstract(d, c) ==
  \E b \in Range(MRO(d, c)) : \E n \in MemberNames :
     /\ d[b].dict[n].kind = "abstract"
     /\ _findattr(d, c, n).impl = d[b].dict[n].impl

\* The class statement class c(base) with the decorator mark and the body
\* dict, d holding the classes defined so far: the result, and the class it
\* leaves behind.
\*   yuppy.py: final(cls) binds the name to the function constructor, and a
\*   class statement whose base is a function raises TypeError; abstract(cls)
\*   and encapsulate(cls) bind it to a subclass of cls.
\*   yuppy/core.py: ObjectType.__init__ raises TypeError or marks the class
\*   abstract, then abstract(cls) and final(cls) set their marks.
ClassStatementOf(v, d, c, base, mark, dict) ==
  LET new == Definition(base, mark, dict, FALSE)
      dd == [d EXCEPT ![c] = new]
  IN IF v = "encapsulate"
     THEN IF base # 0 /\ d[base].mark = "final"
          THEN [res |-> Raise("TypeError"), def |-> NoDef]
          ELSE [res |-> Ok(NoneV), def |-> new]
     ELSE IF FinalBase(dd, c) \/ FinalOverridden(dd, c)
          THEN [res |-> Raise("TypeError"), def |-> NoDef]
          ELSE [res |-> Ok(NoneV),
                def |-> Definition(base, mark, dict,
                                   class_isabstract(dd, c) \/ mark = "abstract")]

\* c(): the construction of an instance.
\*   yuppy.py: Abstract.__init__ reads the name AbstractClass, which the
\*   module does not define, whenever the class or one of its bases is the
\*   Abstract of abstract(cls); the constructor of a final class and the
\*   Object of an encapsulated one construct the instance.
\*   yuppy/core.py: Object.__new__ raises TypeError when isabstract(cls),
\*   which looks for __abstract__ in the __dict__ of cls only.
Construct(v, d, c) ==
  IF v = "encapsulate"
  THEN IF \E a \in Range(MRO(d, c)) : d[a].mark = "abstract"
       THEN Raise("NameError") ELSE Ok(NoneV)
  ELSE IF d[c].abstract THEN Raise("TypeError") ELSE Ok(NoneV)

\* The __dict__ of what the name of the class is bound to in yuppy.py: the
\* class itself, or the Object of encapsulate, which gets an entry only for
\* a private or protected member.
OwnDict(d, c) ==
  IF d[c].mark = "encapsulate" THEN [n \in ClassNames |-> NoEntry] ELSE d[c].dict

\* cls.__interfaces__: the class of the __mro__ whose __interfaces__ the
\* attribute lookup finds (0: AttributeError).
RECURSIVE Holder(_, _)
Holder(d, c) ==
  IF c = 0 THEN 0
  ELSE IF d[c].own THEN c
  ELSE Holder(d, d[c].base)

\* The names of the _AbstractAttribute entries of interface.__dict__.
AbstractMembers(im, I) == {n \in MemberNames : im[I][n] = "abstract"}

\* implements(interface)(cls): the result and the classes afterwards.
\*   yuppy.py: every _AbstractAttribute of the interface needs an entry in
\*   cls.__dict__, else TypeError; then the interface is added to the set
\*   cls.__interfaces__ evaluates to, a new one on cls if there is none.
\*   yuppy/core.py: isyuppyclass(cls) finds cls.__metaclass__ and then reads
\*   the name ClassType, which the module does not define.
implements(v, d, im, I, c) ==
  IF v = "encapsulate"
  THEN IF \E n \in AbstractMembers(im, I) : OwnDict(d, c)[n].kind = "absent"
       THEN [res |-> Raise("TypeError"), d |-> d]
       ELSE [res |-> Ok(NoneV),
             d |-> IF Holder(d, c) = 0
                   THEN [d EXCEPT ![c].own = TRUE, ![c].ifaces = {I}]
                   ELSE [d EXCEPT ![Holder(d, c)].ifaces = @ \cup {I}]]
  ELSE [res |-> Raise("NameError"), d |-> d]

\* instanceof(c(), interface, ducktype).
\*   yuppy.py: isinstance(instance, interface) is false, no class deriving
\*   from an interface; with ducktype every _AbstractAttribute of the
\*   interface needs an entry in instance.__class__.__dict__; without, the
\*   interface is looked for in instance.__class__.__interfaces__.
\*   yuppy/core.py: with ducktype the loop looks at the entries of the
\*   __mro__ of the interface that getattr returns as a FunctionType: a def
\*   of the interface comes back as an unbound method and is skipped, and
\*   Interface.__new__ is matched by Object.__new__; without, the interface
\*   is looked for in obj.__interfaces__.
Nominal(d, I, c) == Holder(d, c) # 0 /\ I \in d[Holder(d, c)].ifaces
instanceof(v, d, im, c, I, ducktype) ==
  IF ducktype
  THEN IF v = "encapsulate"
       THEN \A n \in AbstractMembers(im, I) : OwnDict(d, c)[n].kind # "absent"
       ELSE TRUE
  ELSE Nominal(d, I, c)

\* I.n read and I.n = value through the interface, im the __dict__ of the
\* interfaces.  Reading calls __get__ of an _AbstractAttribute, which raises
\* AttributeError; a function of a class of yuppy/core.py comes back as an
\* unbound method.  The assignment replaces the entry of the class: __set__
\* of a descriptor is called for an assignment on an instance only, and
\* StaticType.__setattr__ refuses the names of Attribute entries only.
InterfaceGet(im, I, n) ==
  CASE im[I][n] = "abstract" -> Raise("abstract")
    [] im[I][n] = "function" -> Ok(CallableV)
    [] im[I][n] = "value" -> Ok(IntV(1))
    [] OTHER -> Raise("noattr")
InterfaceSet(im, I, n) == [res |-> Ok(NoneV), im |-> [im EXCEPT ![I][n] = "value"]]

\* isattribute(obj) of yuppy/core.py: an instance of Attribute, which
\* Constant, Variable and Method (AbstractMethod, FinalMethod) derive from.
isattributeNever(e) == FALSE
isattribute(e) ==
  e.kind \in {"variable", "constant", "abstract", "final"}

\* cls.__attributes__: for each name the first Attribute entry of the
\* __mro__.
RECURSIVE FirstAttribute(_, _, _)
FirstAttribute(d, c, n) ==
  IF c = 0 THEN NoEntry
  ELSE IF isattribute(d[c].dict[n]) THEN d[c].dict[n]
  ELSE FirstAttribute(d, d[c].base, n)
__attributes__(d, c) == [n \in ClassNames |-> FirstAttribute(d, c, n)]

\* StaticType.__setattr__(cls, name, value) and __delattr__(cls, name): a
\* name that is not __dunder__ and that _findattr resolves to an Attribute is
\* refused; else type.__setattr__ puts the value in the __dict__ of cls, and
\* type.__delattr__ removes the entry of cls.__dict__ or raises
\* AttributeError when there is none.  The classes of yuppy.py have type as
\* their metaclass.
StaticSetattr(v, d, c, n, kind) ==
  IF v = "metaclass" /\ ~IsDunder(n) /\ isattribute(_findattr(d, c, n))
  THEN [res |-> Raise("override"), d |-> d]
  ELSE [res |-> Ok(NoneV), d |-> [d EXCEPT ![c].dict[n] = Entry(kind, c)]]
StaticDelattr(v, d, c, n) ==
  IF v = "metaclass" /\ ~IsDunder(n) /\ isattribute(_findattr(d, c, n))
  THEN [res |-> Raise("nodelete"), d |-> d]
  ELSE IF d[c].dict[n].kind = "absent" THEN [res |-> Raise("noattr"), d |-> d]
  ELSE [res |-> Ok(NoneV), d |-> [d EXCEPT ![c].dict[n] = NoEntry]]

\* Object.__setattr__(self, name, value) of yuppy/core.py with an Attribute as
\* the value: setattr(self.__class__, name, value).
ObjectSetattr(v, d, c, n, kind) == StaticSetattr(v, d, c, n, kind)

\* ------------------------------------------------------------------------
\* State
\* ------------------------------------------------------------------------
VARIABLES
  family,   \* the family of classes the program has defined
  cls,      \* cls[i]: the class of the external object i (NoType: not constructed)
  idict,    \* idict[i][n]: the __dict__ of the internal object of i
  sval,     \* sval[<<c, n>>]: the __value__ of the static variable n declared in c
  edict,    \* edict[i][n]: the entries of the __dict__ of the external object i
            \* besides __private__
  extcls,   \* the names assigned on the class objects from outside: <<c, n, v>>
  written,  \* written[i]: the value the last assignment that did not raise stored in
            \* the instance variable foo of i (Unset: none yet)
  last,     \* the operation just performed and its result, until the caller goes on
  variant,  \* the module the program imports: "encapsulate" (yuppy.py) or
            \* "metaclass" (yuppy/core.py)
  defined,  \* defined[c]: the class the c-th class statement defined (NoDef: none)
  imem,     \* imem[I][n]: the entry n of the __dict__ of the interface I
  recorded, \* history: the <<c, I>> for which implements(I)(c) has returned
  decl,     \* the declaration being written: the attribute x it starts from, the
            \* wrappers applied to it so far, innermost first, and what they returned
  properties, \* properties[o][n]: the __properties__ of the xpy object o
  odict,    \* odict[o][n]: the __dict__ of the xpy object o
  access    \* the attribute access of an xpy object just made, with its caller
            \* and its result

vars ==
  <<family, cls, idict, sval, edict, extcls, written, last, variant, defined, imem,
    recorded, decl, properties, odict, access>>

\* The state of the encapsulated objects, and that of the class statements
\* and interfaces.
Encapsulation == <<family, cls, idict, sval, edict, extcls, written>>
Classdefs == <<variant, defined, imem, recorded>>
Declarations == <<decl>>
Inspection == <<properties, odict, access>>

Slots == 1..MaxInst
StaticVars == {p \in Classes \X Names : Body[p[1]][p[2]].kind = "svar"}
FamilyClasses(f) == {c \in Classes : Decl[c].family = f}

\* The __dict__ of the external object: Object.__init__ puts __private__ in
\* it and every write of an attribute is routed to the internal object by
\* call, so it gets an entry only from code that writes into the dictionary.
SelfDict(i) == edict[i]

Op(op, c, i, n, arg, res) == [op |-> op, c |-> c, i |-> i, n |-> n, arg |-> arg, res |-> res]
Idle == Op("idle", "none", 0, "none", Unset, Ok(NoneV))
NoDecl == [x |-> NoAttr, applied |-> <<>>, cur |-> NoAttr]

\* The objects of a program that imports xpy.py, the names it accesses on
\* them, and the caller of an access: the text of its first parameter
\* (varname; "none": it has no parameter), the value bound to it (self;
\* NotObject: not an instance of Object), the text that stands before the
\* attribute name on its source line (context), and whether the code is
\* the body of a method, of a function, or module code.
XpyObjects == 1..3
XpyNames == {"foo", "pfoo"}
NotObject == 0
Frame(co_name, varname, self, context, code) ==
  [co_name |-> co_name, varname |-> varname, self |-> self, context |-> context,
   code |-> code]
NoCaller == Frame("none", "none", NotObject, "none", "none")
NoProperties == [o \in XpyObjects |-> [n \in XpyNames |-> Unset]]
NoAccess ==
  [op |-> "none", o |-> NotObject, n |-> "none", caller |-> NoCaller, res |-> Ok(NoneV)]

Init ==
  /\ family \in Families
  /\ cls = [i \in Slots |-> NoType]
  /\ idict = [i \in Slots |-> [n \in Keys |-> Unset]]
  /\ edict = [i \in Slots |-> [n \in Names |-> Unset]]
  /\ sval = [p \in StaticVars |-> Unset]
  /\ extcls = {}
  /\ written = [i \in Slots |-> Unset]
  /\ last = Idle
  /\ variant = "encapsulate"
  /\ defined = [c \in DefIds |-> NoDef]
  /\ imem = [I \in Interfaces |-> interface(variant, InterfaceBody[I])]
  /\ recorded = {}
  /\ decl = NoDecl
  /\ properties = NoProperties
  /\ odict = NoProperties
  /\ access = NoAccess

\* instance = C() (C(1) for a class with an initializer): Object.__init__.
New(c) ==
  /\ last = Idle
  /\ c \in FamilyClasses(family)
  /\ Wrapper(External(c)) # "none"
  /\ \E i \in Slots :
       /\ cls[i] = NoType
       /\ \A j \in Slots : j < i => cls[j] # NoType
       /\ \E out \in {ObjectInit(idict, sval, i, c, IntV(1))} :
            /\ cls' = IF out.res.err = "none" THEN [cls EXCEPT ![i] = External(c)] ELSE cls
            /\ idict' = out.d
            /\ sval' = out.s
            /\ written' = IF out.res.err = "none" /\ Initializer(c) # NoAttr
                          THEN [written EXCEPT ![i] = out.d[i]["foo"]]
                          ELSE written
            /\ last' = Op("new", c, i, "none", Unset, out.res)
  /\ UNCHANGED <<Classdefs, Declarations, Inspection, family, extcls, edict>>

\* The internal object's class: the cls of the closure whose Object the
\* instance uses.
Internal(i) == Raw(Wrapper(cls[i]))

\* instance.n from outside: Object.__getattribute__.
ExtRead(i, n) ==
  /\ last = Idle
  /\ cls[i] # NoType
  /\ \E verdict \in {call(SelfDict(i), cls[i], Wrapper(cls[i]), n)} :
       last' = Op("read", cls[i].c, i, n, Unset,
                  IF verdict = "forward" THEN Get(idict, sval, i, Internal(i), n)
                  ELSE Raise(verdict))
  /\ UNCHANGED <<Classdefs, Declarations, Inspection, family, cls, idict, sval, extcls, written, edict>>

\* instance.n = v from outside: Object.__setattr__.
ExtWrite(i, n, v) ==
  /\ last = Idle
  /\ cls[i] # NoType
  /\ \E verdict \in {call(SelfDict(i), cls[i], Wrapper(cls[i]), n)} :
     \E out \in {IF verdict = "forward" THEN Set(idict, sval, i, Internal(i), n, v)
                 ELSE Out(Raise(verdict), idict, sval)} :
        /\ last' = Op("write", cls[i].c, i, n, v, out.res)
        /\ idict' = out.d
        /\ sval' = out.s
        /\ written' = IF verdict = "forward" /\ out.res.err = "none"
                         /\ Lookup(Internal(i), n).kind = "var"
                      THEN [written EXCEPT ![i] = out.d[i][Lookup(Internal(i), n).name]]
                      ELSE written
  /\ UNCHANGED <<Classdefs, Declarations, Inspection, family, cls, extcls, edict>>

\* del instance.n from outside: Object.__delattr__.
ExtDelete(i, n) ==
  /\ last = Idle
  /\ cls[i] # NoType
  /\ \E verdict \in {call(SelfDict(i), cls[i], Wrapper(cls[i]), n)} :
     \E out \in {IF verdict = "forward" THEN Delete(idict, sval, i, Internal(i), n)
                 ELSE Out(Raise(verdict), idict, sval)} :
        /\ last' = Op("delete", cls[i].c, i, n, Unset, out.res)
        /\ idict' = out.d
        /\ sval' = out.s
  /\ UNCHANGED <<Classdefs, Declarations, Inspection, family, cls, extcls, written, edict>>

\* What instance.n(v) does once call has forwarded the read: the read of
\* the internal object, then the call of what it returned, with self bound
\* to the internal object.
InvokeGot(d, s, i, t, a, v, got) ==
  IF got.err # "none" THEN Out(got, d, s)
  ELSE IF got.val # CallableV THEN Out(Raise("TypeError"), d, s)
  ELSE Run(d, s, i, t, a, v)

Invoke(d, s, i, t, n, v) == InvokeGot(d, s, i, t, Lookup(t, n), v, Get(d, s, i, t, n))

\* The method n of an instance of t stores v in an instance variable.
Stores(t, n) ==
  /\ Lookup(t, n).body = "set"
  /\ Lookup(t, Lookup(t, n).target).kind = "var"

\* instance.n(v) from outside: Object.__getattribute__, then the call.
ExtCall(i, n, v) ==
  /\ last = Idle
  /\ cls[i] # NoType
  /\ \E verdict \in {call(SelfDict(i), cls[i], Wrapper(cls[i]), n)} :
     \E out \in {IF verdict = "forward" THEN Invoke(idict, sval, i, Internal(i), n, v)
                 ELSE Out(Raise(verdict), idict, sval)} :
        /\ last' = Op("call", cls[i].c, i, n, v, out.res)
        /\ idict' = out.d
        /\ sval' = out.s
        /\ written' = IF verdict = "forward" /\ out.res.err = "none" /\ Stores(Internal(i), n)
                      THEN [written EXCEPT ![i] = out.d[i][Lookup(Internal(i), n).target]]
                      ELSE written
  /\ UNCHANGED <<Classdefs, Declarations, Inspection, family, cls, extcls, edict>>

\* C.n = v from outside, C the name of an encapsulated class: the entry
\* goes into the __dict__ of Object.
ClassAssign(c, n, v) ==
  /\ last = Idle
  /\ c \in FamilyClasses(family)
  /\ Decl[c].encapsulated
  /\ extcls' = {e \in extcls : ~(e[1] = c /\ e[2] = n)} \cup {<<c, n, v>>}
  /\ last' = Op("classassign", c, 0, n, v, Ok(NoneV))
  /\ UNCHANGED <<Classdefs, Declarations, Inspection, family, cls, idict, sval, written, edict>>

\* The visibility of the stand-in encapsulate installs on Object for n
\* ("none": no stand-in): only the entries of the class's own body get one.
StandIn(c, n) ==
  IF Body[c][n].vis \in {"private", "protected"} THEN Body[c][n].vis ELSE "none"

\* C.n read from outside: type.__getattribute__ on Object, which finds the
\* entry of Object.__dict__ first and then those of the raw classes, and
\* calls __get__(None, Object) of a descriptor.
ClassGet(c, n) ==
  LET a == Lookup(Raw(c), n) IN
  IF \E e \in extcls : e[1] = c /\ e[2] = n
  THEN Ok((CHOOSE e \in extcls : e[1] = c /\ e[2] = n)[3])
  ELSE IF StandIn(c, n) # "none" THEN Raise("visibility")
  ELSE CASE a.kind = "var" -> Raise("noattr")
         [] a.kind = "svar" ->
              IF sval[<<Owner(Raw(c), n), n>>] # Unset THEN Ok(sval[<<Owner(Raw(c), n), n>>])
              ELSE IF a.hasdefault THEN Ok(a.default) ELSE Raise("missing")
         [] a.kind = "const" -> Ok(a.value)
         [] a.kind \in {"method", "smethod", "func"} -> Ok(CallableV)
         [] OTHER -> Raise("noattr")

ClassRead(c, n) ==
  /\ last = Idle
  /\ c \in FamilyClasses(family)
  /\ Decl[c].encapsulated
  /\ last' = Op("classread", c, 0, n, Unset, ClassGet(c, n))
  /\ UNCHANGED <<Classdefs, Declarations, Inspection, family, cls, idict, sval, extcls, written, edict>>

\* instance.__dict__[n] = v from outside: Object.__getattribute__ does not
\* check a name that begins and ends with two underscores and hands out the
\* external object's own dictionary.
DictAssign(i, n, v) ==
  /\ last = Idle
  /\ cls[i] # NoType
  /\ edict[i][n] # v
  /\ edict' = [edict EXCEPT ![i][n] = v]
  /\ last' = Op("dictassign", cls[i].c, i, n, v, Ok(NoneV))
  /\ UNCHANGED <<Classdefs, Declarations, Inspection, family, cls, idict, sval, extcls, written>>

\* The caller has seen the result of its operation and goes on.
Continue ==
  /\ last # Idle
  /\ last' = Idle
  /\ UNCHANGED <<Classdefs, Declarations, Inspection, family, cls, idict, sval, extcls, written, edict>>

\* The inputs of the callers.  The member under test of every class is
\* foo: it is read, written, deleted and called from outside; the accessor
\* methods are read and called.  A variable or constant is assigned every
\* input value, a method name one value; a method that takes a value is
\* called with every input value, the others with none.  The name foo is
\* assigned one value on a class object and in the dictionary of an
\* external object.
WriteValues(i, n) ==
  IF cls[i] # NoType /\ Lookup(Internal(i), n).kind \in DataKinds THEN InputValues
  ELSE {IntV(1)}
AssignTargets == {c \in Classes : Body[c]["foo"].kind # "absent"}
CallValues(i, n) ==
  IF cls[i] # NoType /\ Lookup(Internal(i), n).body = "set" THEN InputValues
  ELSE {NoneV}

Next ==
  \/ \E c \in Classes : New(c)
  \/ \E i \in Slots, n \in Names : ExtRead(i, n)
  \/ \E i \in Slots : \E v \in WriteValues(i, "foo") : ExtWrite(i, "foo", v)
  \/ \E i \in Slots : ExtDelete(i, "foo")
  \/ \E i \in Slots, n \in Names : \E v \in CallValues(i, n) : ExtCall(i, n, v)
  \/ \E c \in AssignTargets : ClassAssign(c, "foo", Baz)
  \/ \E c \in Classes, n \in Names : ClassRead(c, n)
  \/ \E i \in Slots : DictAssign(i, "foo", NoneV)
  \/ Continue

Spec == Init /\ [][Next]_vars

\* The program restricted to some families of classes.
InitPrivate == Init /\ family \in {"privvar", "privmeth", "constant", "static"}
SpecPrivate == InitPrivate /\ [][Next]_vars
InitProtected == Init /\ family \in {"protvar", "protmeth"}
SpecProtected == InitProtected /\ [][Next]_vars
InitPublic == Init /\ family \in {"pubvar", "pubmeth", "constant", "privvar", "static"}
SpecPublic == InitPublic /\ [][Next]_vars
InitConstant == Init /\ family \in {"constant"}
SpecConstant == InitConstant /\ [][Next]_vars
InitVariable == Init /\ family \in {"pubvar", "privvar", "static"}
SpecVariable == InitVariable /\ [][Next]_vars
InitStatic == Init /\ family \in {"shared", "apart"}
SpecStatic == InitStatic /\ [][Next]_vars
InitStored == Init /\ family \in {"pubvar", "privvar", "shared"}
SpecStored == InitStored /\ [][Next]_vars
InitRedeclared == Init /\ family \in {"redeclared"}
SpecRedeclared == InitRedeclared /\ [][Next]_vars
InitUnnamed == Init /\ family \in {"unnamed"}
SpecUnnamed == InitUnnamed /\ [][Next]_vars
InitInitialized == Init /\ family \in {"initialized"}
SpecInitialized == InitInitialized /\ [][Next]_vars

\* ------------------------------------------------------------------------
\* Programs that define classes with modifiers, and programs that declare
\* interfaces
\* ------------------------------------------------------------------------
\* The decorators and the bodies of the class statements of a program.  A
\* program of the family "modifiers" marks classes final or abstract and,
\* with yuppy/core.py, methods too; a program of the family "conformance"
\* declares the interfaces, encapsulates classes (yuppy.py) and gives them
\* methods and values.
Marks(v, f) ==
  IF f = "modifiers" THEN {"none", "final", "abstract"}
  ELSE IF f = "classlevel" THEN {"none"}
  ELSE IF v = "encapsulate" THEN {"none", "encapsulate"} ELSE {"none"}
Bodies(v, f) ==
  IF f = "classlevel"
  THEN {<<"variable", "absent", "absent">>, <<"value", "absent", "absent">>,
        <<"absent", "absent", "variable">>, <<"absent", "absent", "absent">>}
  ELSE IF f = "modifiers"
  THEN IF v = "metaclass"
       THEN {<<"absent", "absent">>, <<"method", "absent">>,
             <<"abstract", "absent">>, <<"final", "absent">>}
       ELSE {<<"method", "absent">>}
  ELSE {<<"method", "method">>, <<"method", "absent">>,
        <<"value", "method">>, <<"absent", "absent">>}

Defs(f) == IF f = "modifiers" THEN DefIds ELSE 1..MaxConf

\* The __dict__ a class body leaves: foo, bar and, in a body of three
\* entries, __baz__.
ClassBodyOf(body, c) ==
  [ClassDict(body[1], body[2], c) EXCEPT
     !["__baz__"] = IF Len(body) = 3 /\ body[3] # "absent" THEN Entry(body[3], c)
                    ELSE NoEntry]

Did(op, c, I, n, arg, res) == [op |-> op, c |-> I, i |-> c, n |-> n, arg |-> arg, res |-> res]

InitClasses ==
  /\ family \in {"modifiers", "conformance", "declare", "classlevel", "inspected"}
  /\ variant \in Variants
  /\ cls = [i \in Slots |-> NoType]
  /\ idict = [i \in Slots |-> [n \in Keys |-> Unset]]
  /\ edict = [i \in Slots |-> [n \in Names |-> Unset]]
  /\ sval = [p \in StaticVars |-> Unset]
  /\ extcls = {}
  /\ written = [i \in Slots |-> Unset]
  /\ last = Idle
  /\ defined = [c \in DefIds |-> NoDef]
  /\ imem = [I \in Interfaces |-> interface(variant, InterfaceBody[I])]
  /\ recorded = {}
  /\ decl = NoDecl
  /\ properties = NoProperties
  /\ odict = NoProperties
  /\ access = NoAccess

\* The next class statement of the program: class c(base) with a decorator
\* and a body.  The base is object (Object with yuppy/core.py) or the name
\* of the class defined just before, which is bound to a raw class in a
\* program of the family "conformance".
Define(base, mark, body) ==
  \E c \in Defs(family) :
     /\ defined[c] = NoDef
     /\ \A k \in DefIds : k < c => defined[k] # NoDef
     /\ base \in {0, c - 1}
     /\ base # 0 => ~(family = "conformance" /\ defined[base].mark = "encapsulate")
     /\ \E out \in {ClassStatementOf(variant, defined, c, base, mark,
                                     ClassBodyOf(body, c))} :
          /\ defined' = IF out.res.err = "none" THEN [defined EXCEPT ![c] = out.def]
                        ELSE defined
          /\ last' = Did("class", c, "none", "none",
                         [base |-> base, mark |-> mark,
                          dict |-> ClassBodyOf(body, c)], out.res)
     /\ UNCHANGED <<Encapsulation, Declarations, Inspection, variant, imem, recorded>>

\* c().
Instantiate(c) ==
  /\ defined[c] # NoDef
  /\ last' = Did("construct", c, "none", "none", Unset, Construct(variant, defined, c))
  /\ UNCHANGED <<Encapsulation, Declarations, Inspection, Classdefs>>

\* I(): classnew of interface(cls) in yuppy.py, Interface.__new__ in
\* yuppy/core.py.
InterfaceNew(I) ==
  /\ last' = Did("inew", 0, I, "none", Unset, Raise("TypeError"))
  /\ UNCHANGED <<Encapsulation, Declarations, Inspection, Classdefs>>

\* I.n
InterfaceRead(I, n) ==
  /\ last' = Did("iread", 0, I, n, Unset, InterfaceGet(imem, I, n))
  /\ UNCHANGED <<Encapsulation, Declarations, Inspection, Classdefs>>

\* I.n = 1
InterfaceWrite(I, n) ==
  /\ imem[I][n] # "value"
  /\ \E out \in {InterfaceSet(imem, I, n)} :
       /\ imem' = out.im
       /\ last' = Did("iwrite", 0, I, n, IntV(1), out.res)
  /\ UNCHANGED <<Encapsulation, Declarations, Inspection, variant, defined, recorded>>

\* c = implements(I)(c)
Implements(I, c) ==
  /\ defined[c] # NoDef
  /\ \E out \in {implements(variant, defined, imem, I, c)} :
       /\ defined' = out.d
       /\ recorded' = IF out.res.err = "none" THEN recorded \cup {<<c, I>>} ELSE recorded
       /\ last' = Did("implements", c, I, "none", Unset, out.res)
  /\ UNCHANGED <<Encapsulation, Declarations, Inspection, variant, imem>>

\* instanceof(c(), I, ducktype)
InstanceOf(c, I, ducktype) ==
  /\ defined[c] # NoDef
  /\ Construct(variant, defined, c).err = "none"
  /\ last' = Did("instanceof", c, I, "none", IF ducktype THEN TrueV ELSE FalseV,
                 Ok(IF instanceof(variant, defined, imem, c, I, ducktype)
                    THEN TrueV ELSE FalseV))
  /\ UNCHANGED <<Encapsulation, Declarations, Inspection, Classdefs>>

\* The names and values of the class-level assignments of a program: 9 and
\* variable().
LevelNames == {"foo", "__baz__"}
LevelKinds == {"value", "variable"}

\* C.n = value
ClassSetattr(c, n, kind) ==
  /\ defined[c] # NoDef
  /\ \E out \in {StaticSetattr(variant, defined, c, n, kind)} :
       /\ defined' = out.d
       /\ last' = Did("csetattr", c, "none", n, kind, out.res)
  /\ UNCHANGED <<Encapsulation, Declarations, Inspection, variant, imem, recorded>>

\* del C.n
ClassDelattr(c, n) ==
  /\ defined[c] # NoDef
  /\ \E out \in {StaticDelattr(variant, defined, c, n)} :
       /\ defined' = out.d
       /\ last' = Did("cdelattr", c, "none", n, Unset, out.res)
  /\ UNCHANGED <<Encapsulation, Declarations, Inspection, variant, imem, recorded>>

\* C().n = variable()
InstanceSetattr(c, n) ==
  /\ defined[c] # NoDef
  /\ Construct(variant, defined, c).err = "none"
  /\ \E out \in {ObjectSetattr(variant, defined, c, n, "variable")} :
       /\ defined' = out.d
       /\ last' = Did("osetattr", c, "none", n, "variable", out.res)
  /\ UNCHANGED <<Encapsulation, Declarations, Inspection, variant, imem, recorded>>

NextClassLevel ==
  \/ \E base \in {0} \cup DefIds : \E mark \in Marks(variant, family) :
       \E body \in Bodies(variant, family) : Define(base, mark, body)
  \/ \E c \in DefIds, n \in LevelNames : \E kind \in LevelKinds : ClassSetattr(c, n, kind)
  \/ \E c \in DefIds, n \in LevelNames : ClassDelattr(c, n)
  \/ \E c \in DefIds, n \in LevelNames : InstanceSetattr(c, n)

InitClassLevel == InitClasses /\ family = "classlevel" /\ variant = "metaclass"
SpecClassLevel == InitClassLevel /\ [][NextClassLevel]_vars

NextModifiers ==
  \/ \E base \in {0} \cup DefIds : \E mark \in Marks(variant, family) :
       \E body \in Bodies(variant, family) : Define(base, mark, body)
  \/ \E c \in DefIds : Instantiate(c)

NextConformance ==
  \/ \E base \in {0} \cup DefIds : \E mark \in Marks(variant, family) :
       \E body \in Bodies(variant, family) : Define(base, mark, body)
  \/ \E I \in Interfaces : InterfaceNew(I)
  \/ \E I \in Interfaces, n \in MemberNames : InterfaceRead(I, n)
  \/ InterfaceWrite("I", "foo")
  \/ \E I \in Interfaces, c \in DefIds : Implements(I, c)
  \/ \E I \in Interfaces, c \in DefIds : \E ducktype \in BOOLEAN : InstanceOf(c, I, ducktype)

\* ------------------------------------------------------------------------
\* Declarations: wrappers applied to an attribute
\* ------------------------------------------------------------------------
MaxWrap == 2
Wrappers == {"static", "public", "protected", "private"}

\* variable(**kwargs) and method(f), a bare function, and constant(value).
variable(k) == public(k)
method(f) == public(f)
DeclKwargs ==
  {Kwargs(h, d, t, v) : h \in BOOLEAN, d \in {NoneV, IntV(1)}, t \in {"none", "int"},
                        v \in BOOLEAN}
DeclFunctions == {function("get", "foo"), function("ret", "none")}
DeclInputs ==
  {variable(k) : k \in DeclKwargs} \cup {method(f) : f \in DeclFunctions}
    \cup DeclFunctions \cup {const(IntV(1))}

ApplyWrapper(w, a) == IF w = "static" THEN static(a) ELSE Wrap(w, a)

\* x = variable(...), x = method(f), ...
Declare(x) ==
  /\ family = "declare" /\ decl = NoDecl
  /\ decl' = [x |-> x, applied |-> <<>>, cur |-> x]
  /\ UNCHANGED <<Encapsulation, Classdefs, Inspection, last>>

\* w(...) around what has been written so far.
Apply(w) ==
  /\ family = "declare" /\ decl # NoDecl
  /\ decl.cur.kind # "NameError"
  /\ Len(decl.applied) < MaxWrap
  /\ decl' = [decl EXCEPT !.applied = Append(@, w), !.cur = ApplyWrapper(w, @)]
  /\ UNCHANGED <<Encapsulation, Classdefs, Inspection, last>>

\* The next declaration.
Discard ==
  /\ family = "declare" /\ decl # NoDecl
  /\ decl' = NoDecl
  /\ UNCHANGED <<Encapsulation, Classdefs, Inspection, last>>

NextDeclare ==
  \/ \E x \in DeclInputs : Declare(x)
  \/ \E w \in Wrappers : Apply(w)
  \/ Discard

InitDeclare == InitClasses /\ family = "declare" /\ variant = "encapsulate"
SpecDeclare == InitDeclare /\ [][NextDeclare]_vars

\* ------------------------------------------------------------------------
\* src/xpy.py: members guarded by inspection of the call stack
\* ------------------------------------------------------------------------
\* class A(Object): foo = private(default=1, type=int)
\*                  pfoo = protected(default=2)
\* class B(A) with methods only, and a class of another module that is
\* named A as well (Namesake); the objects 1, 2, 3 are A(), B() and an
\* instance of that other class.
XpyClasses == {"A", "B", "Namesake"}
XpyValues == {IntV(7)}
ClassName(c) == IF c = "Namesake" THEN "A" ELSE c
ClassObject(c) == [t |-> "class", n |-> c]
getmro(c) == IF c = "B" THEN <<"B", "A", "Object", "object">> ELSE <<c, "Object", "object">>
XpyClass(o) == CASE o = 1 -> "A" [] o = 2 -> "B" [] o = 3 -> "Namesake"

\* _Variable.__init__ and _Attribute.__init__: a member as private(**kwargs)
\* or protected(**kwargs) returns it.
NoMember ==
  [kind |-> "none", default |-> Unset, type |-> "none", name |-> "None", parent |-> NoneV]
Member_(kind, default, type) == [NoMember EXCEPT !.kind = kind, !.default = default, !.type = type]
XpyBody(c, n) ==
  CASE c = "A" /\ n = "foo" -> Member_("PrivateMember", IntV(1), "int")
    [] c = "A" /\ n = "pfoo" -> Member_("ProtectedMember", IntV(2), "none")
    [] OTHER -> NoMember

\* _ObjectType.__init__: the __attributes__ of the class c are the entries
\* of its own body, each with its key as __name__ and the class object as
\* __parent__; the entries are deleted from the class.
_ObjectType(c) ==
  [n \in XpyNames |->
     IF XpyBody(c, n).kind = "none" THEN NoMember
     ELSE [XpyBody(c, n) EXCEPT !.name = n, !.parent = ClassObject(c)]]
XpyAttributes == [c \in XpyClasses |-> _ObjectType(c)]

\* '%s' % (self.__parent__,)
Str(v) == IF v.t = "class" THEN "<class '" \o v.n \o "'>" ELSE "None"

\* inspect.stack() inside _get_local_caller, innermost frame first, for an
\* access of the object o made by caller.
inspect_stack(op, o, caller) ==
  << Frame("_get_local_caller", "self", NotObject, "none", "method"),
     Frame(IF op = "get" THEN "__get__" ELSE "__set__", "self", NotObject, "none", "method"),
     Frame(IF op = "get" THEN "__getattribute__" ELSE "__setattr__", "self", o, "none",
           "method"),
     caller >>

\* _Attribute._get_local_caller: the first of the five innermost frames
\* that runs __getattribute__ or __setattr__ on an Object; the frame after
\* it is the caller, whose first argument is returned when it is called
\* self, is an Object, and the source line holds self.<name> or
\* <parent>.<name>.  NotObject stands for None.
RECURSIVE ScanStack(_, _, _)
ScanStack(a, stack, i) ==
  IF i >= 5 \/ i + 1 > Len(stack) THEN NotObject
  ELSE LET code == stack[i + 1]
       IN IF /\ \/ code.co_name = "__getattribute__"
                \/ code.co_name = "__setattr__" /\ code.varname = "self"
             /\ code.self \in XpyObjects
          THEN LET callingframe == stack[i + 2]
               IN IF /\ callingframe.varname = "self"
                     /\ callingframe.self \in XpyObjects
                     /\ callingframe.context \in {"self", Str(a.parent)}
                  THEN callingframe.self
                  ELSE NotObject
          ELSE ScanStack(a, stack, i + 1)
_get_local_caller(a, stack) ==
  ScanStack(a, stack, 0)

\* _Variable._validate
XpyValidate(a, value) ==
  IF a.type # "none" /\ value.t # a.type THEN Raise("AttributeError") ELSE Ok(value)

\* The result of an access, and the dictionaries after it.
Accessed(res, p, d) == [res |-> res, properties |-> p, odict |-> d]

\* instance.__properties__[self.__name__], else the default.
PropertyOf(p, o, a) ==
  IF p[o][a.name] # Unset THEN Ok(p[o][a.name])
  ELSE IF a.default # Unset THEN Ok(a.default)
  ELSE Raise("AttributeError")

\* PrivateMember.__get__ and PrivateMember.__set__
PrivateMemberGet(p, o, a, stack) ==
  LET caller == _get_local_caller(a, stack)
  IN IF caller = NotObject THEN Raise("AttributeError")
     ELSE IF ClassName(XpyClass(caller)) = ClassName(XpyClass(o)) THEN PropertyOf(p, o, a)
     ELSE Raise("AttributeError")
PrivateMemberSet(p, d, o, a, value, stack) ==
  LET caller == _get_local_caller(a, stack)
  IN IF caller = NotObject THEN Accessed(Raise("AttributeError"), p, d)
     ELSE IF ClassName(XpyClass(caller)) = ClassName(XpyClass(o))
     THEN IF XpyValidate(a, value).err # "none" THEN Accessed(XpyValidate(a, value), p, d)
          ELSE Accessed(Ok(NoneV), [p EXCEPT ![o][a.name] = XpyValidate(a, value).val], d)
     ELSE Accessed(Raise("AttributeError"), p, d)

\* ProtectedMember.__get__ and ProtectedMember.__set__: the __name__ of a
\* class of the caller's MRO is compared with __parent__.
ParentInMro(a, caller) ==
  \E k \in 1..Len(getmro(XpyClass(caller))) :
     StrV(ClassName(getmro(XpyClass(caller))[k])) = a.parent
ProtectedMemberGet(p, o, a, stack) ==
  LET caller == _get_local_caller(a, stack)
  IN IF caller = NotObject THEN Raise("AttributeError")
     ELSE IF ParentInMro(a, caller) THEN PropertyOf(p, o, a)
     ELSE Raise("AttributeError")
ProtectedMemberSet(p, d, o, a, value, stack) ==
  LET caller == _get_local_caller(a, stack)
  IN IF caller = NotObject THEN Accessed(Raise("AttributeError"), p, d)
     ELSE IF ParentInMro(a, caller)
     THEN IF XpyValidate(a, value).err # "none" THEN Accessed(XpyValidate(a, value), p, d)
          ELSE Accessed(Ok(NoneV), [p EXCEPT ![o][a.name] = XpyValidate(a, value).val], d)
     ELSE Accessed(Raise("AttributeError"), p, d)

\* Object.__getattribute__ and Object.__setattr__: the attribute of the
\* __attributes__ of the class of the object, else object's own lookup
\* and assignment in the instance __dict__.
XpyGetattribute(p, d, o, n, caller) ==
  LET a == XpyAttributes[XpyClass(o)][n]
      stack == inspect_stack("get", o, caller)
  IN CASE a.kind = "none" -> IF d[o][n] # Unset THEN Ok(d[o][n]) ELSE Raise("AttributeError")
       [] a.kind = "PrivateMember" -> PrivateMemberGet(p, o, a, stack)
       [] a.kind = "ProtectedMember" -> ProtectedMemberGet(p, o, a, stack)
XpySetattr(p, d, o, n, value, caller) ==
  LET a == XpyAttributes[XpyClass(o)][n]
      stack == inspect_stack("set", o, caller)
  IN CASE a.kind = "none" -> Accessed(Ok(NoneV), p, [d EXCEPT ![o][n] = value])
       [] a.kind = "PrivateMember" -> PrivateMemberSet(p, d, o, a, value, stack)
       [] a.kind = "ProtectedMember" -> ProtectedMemberSet(p, d, o, a, value, stack)

\* The code that makes an access: the body of a method or of a function,
\* whose first parameter is called self or something else and is bound to
\* an object (for a function, to anything), or module code, which has no
\* parameter; before the attribute name the line has self or another
\* expression.
Callers ==
  {Frame("getfoo", v, r, t, "method") :
      v \in {"self", "this"}, r \in XpyObjects, t \in {"self", "other"}}
    \cup {Frame("peek", v, r, t, "function") :
      v \in {"self", "this"}, r \in XpyObjects \cup {NotObject}, t \in {"self", "other"}}
    \cup {Frame("<module>", "none", NotObject, t, "module") : t \in {"self", "other"}}

\* o.n read by caller.
Getattr(o, n, caller) ==
  /\ family = "inspected"
  /\ access' = [op |-> "get", o |-> o, n |-> n, caller |-> caller,
                res |-> XpyGetattribute(properties, odict, o, n, caller)]
  /\ UNCHANGED <<Encapsulation, Classdefs, Declarations, last, properties, odict>>

\* o.n = value by caller.
Setattr(o, n, value, caller) ==
  /\ family = "inspected"
  /\ \E out \in {XpySetattr(properties, odict, o, n, value, caller)} :
       /\ access' = [op |-> "set", o |-> o, n |-> n, caller |-> caller, res |-> out.res]
       /\ properties' = out.properties
       /\ odict' = out.odict
  /\ UNCHANGED <<Encapsulation, Classdefs, Declarations, last>>

NextInspected ==
  \/ \E o \in XpyObjects, n \in XpyNames, caller \in Callers : Getattr(o, n, caller)
  \/ \E o \in XpyObjects, n \in XpyNames, value \in XpyValues, caller \in Callers :
        Setattr(o, n, value, caller)

InitInspected == InitClasses /\ family = "inspected" /\ variant = "metaclass"
SpecInspected == InitInspected /\ [][NextInspected]_vars

InitModifiers == InitClasses /\ family = "modifiers"
SpecModifiers == InitModifiers /\ [][NextModifiers]_vars
InitMetaclass == InitModifiers /\ variant = "metaclass"
SpecMetaclass == InitMetaclass /\ [][NextModifiers]_vars
InitConformance == InitClasses /\ family = "conformance"
SpecConformance == InitConformance /\ [][NextConformance]_vars

TypeOK ==
  /\ family \in Families
  /\ \A i \in Slots : cls[i] = NoType \/ cls[i].c \in FamilyClasses(family)
  /\ \A i \in Slots : cls[i] = NoType => idict[i] = [n \in Keys |-> Unset]

\* ------------------------------------------------------------------------
\* Properties
\* ------------------------------------------------------------------------
ExternalOps == {"read", "write", "delete", "call"}

\* The member n as the class of the instance i resolves it.
Member(i, n) == Lookup(Internal(i), n)

\* n is a public method declared in the body of the encapsulated class c,
\* c has an encapsulated base class, and the method uses a member of
\* visibility vis that c inherits.
SubclassMethod(c, n, vis) ==
  /\ Decl[c].encapsulated
  /\ Decl[c].base # "object"
  /\ Decl[Decl[c].base].encapsulated
  /\ Body[c][n].kind = "method"
  /\ Body[c][n].vis = "public"
  /\ Body[c][n].body \in {"get", "set", "call"}
  /\ Body[c][Body[c][n].target].kind = "absent"
  /\ Lookup(Raw(c), Body[c][n].target).vis = vis

\* C1: every read, write, delete or call of a private member (declared in
\* the class or inherited; variable, constant, method, static or not) made
\* from outside through the external object raises AttributeError, whatever
\* happened to the object before.
C1_PrivateRefused ==
  (last.op \in ExternalOps /\ Member(last.i, last.n).vis = "private")
    => IsAttributeError(last.res)

\* c declares a private variable foo, a mutator setfoo and an accessor getfoo.
PrivateWithAccessors(c) ==
  /\ Body[c]["foo"].kind = "var"
  /\ Body[c]["foo"].vis = "private"
  /\ Body[c]["setfoo"].body = "set" /\ Body[c]["setfoo"].target = "foo"
  /\ Body[c]["getfoo"].body = "get" /\ Body[c]["getfoo"].target = "foo"

\* C2: getfoo() of an object of a class with a private variable foo, a
\* mutator setfoo and an accessor getfoo returns the value the most recent
\* setfoo call that did not raise stored, whatever accesses from outside
\* were refused in between.
C2_AccessorReturnsStored ==
  (/\ last.op = "call"
   /\ last.n = "getfoo"
   /\ cls[last.i].k = "obj"
   /\ PrivateWithAccessors(cls[last.i].c)
   /\ written[last.i] # Unset)
    => last.res = Ok(written[last.i])

C2_Witness ==
  /\ last.op = "call"
  /\ last.n = "getfoo"
  /\ cls[last.i] = Objt("PrivateVariable")
  /\ written[last.i] = IntV(1)
  /\ last.res = Ok(IntV(1))

\* C3: a read or write of a protected member made from outside raises
\* AttributeError, whatever object it is made through (an instance of the
\* declaring class, of an encapsulated subclass, or of a subclass that is
\* not encapsulated).
C3_ProtectedRefusedOutside ==
  (last.op \in {"read", "write"} /\ Member(last.i, last.n).vis = "protected")
    => IsAttributeError(last.res)

C5_PrivateOnlyDeclaringClass ==
  (/\ last.op = "call"
   /\ cls[last.i].k = "obj"
   /\ SubclassMethod(cls[last.i].c, last.n, "private"))
    => IsAttributeError(last.res)

\* The same operation applied directly to the internal object.
Direct(op, i, n, v) ==
  CASE op = "read" -> Out(Get(idict, sval, i, Internal(i), n), idict, sval)
    [] op = "write" -> Set(idict, sval, i, Internal(i), n, v)
    [] op = "delete" -> Delete(idict, sval, i, Internal(i), n)
    [] OTHER -> Invoke(idict, sval, i, Internal(i), n, v)

\* n is a public member of the class of i: declared public, or a method
\* without decoration.
PublicMember(i, n) ==
  \/ Member(i, n).vis = "public"
  \/ Member(i, n).kind = "func"

\* C6: a read, write, delete or call of a public member made through the
\* external object gives the result, and leaves the stored values, that the
\* same operation applied directly to the internal object gives.
C6_PublicSameAsInternal ==
  [][(last'.op \in ExternalOps /\ PublicMember(last'.i, last'.n))
       => Out(last'.res, idict', sval') = Direct(last'.op, last'.i, last'.n, last'.arg)]_vars

\* A public variable assigned from outside holds the value.
C6_Witness ==
  /\ last.op = "write"
  /\ last.n = "foo"
  /\ cls[last.i] = Objt("PublicVariable")
  /\ last.arg = IntV(1)
  /\ last.res = Ok(NoneV)
  /\ idict[last.i]["foo"] = IntV(1)

\* C7: a constant declared with value V reads V on every instance, from
\* outside when it is public and in a method of its class; every assignment
\* to it on an instance raises AttributeError; assignments to its name on
\* the class object change nothing of this.
C7_ConstantReadsDeclared ==
  /\ (last.op = "read" /\ Member(last.i, last.n).kind = "const"
        /\ Member(last.i, last.n).vis = "public")
       => last.res = Ok(Member(last.i, last.n).value)
  /\ (last.op = "call" /\ Member(last.i, last.n).body = "get"
        /\ Member(last.i, Member(last.i, last.n).target).kind = "const")
       => last.res = Ok(Member(last.i, Member(last.i, last.n).target).value)
  /\ (last.op = "write" /\ Member(last.i, last.n).kind = "const")
       => IsAttributeError(last.res)

\* After Constant.foo = 'baz' the second of two instances reads 'bar'.
C7_Witness ==
  /\ <<"Constant", "foo", Baz>> \in extcls
  /\ cls[1] = Objt("Constant")
  /\ cls[2] = Objt("Constant")
  /\ last.op = "read"
  /\ last.i = 2
  /\ last.n = "foo"
  /\ last.res = Ok(Bar)

\* C8: an instance variable declared with default D reads D, as declared, on
\* every instance until an assignment on that instance succeeds, and then
\* the value that instance stored last: an assignment on one instance does
\* not change what another reads.
C8_DefaultUntilAssigned ==
  (last.op = "read" /\ Member(last.i, last.n).kind = "var"
     /\ Member(last.i, last.n).vis = "public" /\ Member(last.i, last.n).hasdefault)
    => last.res = Ok(IF written[last.i] = Unset THEN Member(last.i, last.n).default
                     ELSE written[last.i])

\* One instance has stored 1, the other still reads the default 2, which
\* the validator of the variable would refuse.
C8_Witness ==
  /\ cls[1] = Objt("PublicVariable")
  /\ cls[2] = Objt("PublicVariable")
  /\ written[1] = IntV(1)
  /\ written[2] = Unset
  /\ last.op = "read"
  /\ last.i = 2
  /\ last.n = "foo"
  /\ last.res = Ok(IntV(2))
  /\ ~Validator(IntV(2))

\* The operation l assigns to a variable: from outside, or in a mutator.
Assigns(l) ==
  \/ l.op = "write" /\ Member(l.i, l.n).kind \in {"var", "svar"}
  \/ l.op = "call" /\ Member(l.i, l.n).body = "set"
       /\ Member(l.i, Member(l.i, l.n).target).kind \in {"var", "svar"}
Assigned(l) == IF l.op = "write" THEN l.n ELSE Member(l.i, l.n).target

\* The value the variable n holds for the instance i.
Held(d, s, i, n) ==
  IF Member(i, n).kind = "svar" THEN s[<<Owner(Internal(i), n), n>>] ELSE d[i][n]

\* Every value stored in a variable of declared type int is an int.
C9_StoredTyped ==
  /\ \A i \in Slots :
       (cls[i] # NoType /\ Member(i, "foo").kind = "var" /\ Member(i, "foo").type = "int"
          /\ idict[i]["foo"] # Unset)
         => idict[i]["foo"].t = "int"
  /\ \A p \in StaticVars :
       (Body[p[1]][p[2]].type = "int" /\ sval[p] # Unset) => sval[p].t = "int"

\* An assignment of a value that is not an int to a variable of type int
\* stores int(value), or raises AttributeError and stores nothing.
C9_Step ==
  (/\ Assigns(last')
   /\ Member(last'.i, Assigned(last')).type = "int"
   /\ last'.arg.t # "int")
    => \/ /\ last'.res = Ok(NoneV)
          /\ Coerce(last'.arg).err = "none"
          /\ Held(idict', sval', last'.i, Assigned(last')) = Coerce(last'.arg).val
       \/ /\ IsAttributeError(last'.res)
          /\ idict' = idict
          /\ sval' = sval

\* C9: assigning to a variable of a single declared type a value that is
\* not an instance of it stores the coerced value or raises AttributeError
\* and stores nothing, and the stored value of a typed variable is always an
\* instance of the declared type.
C9_CoercedOrRefused == []C9_StoredTyped /\ [][C9_Step]_vars

\* C10: every value stored in a variable declared with a validator
\* satisfies the validator, also when the assigned value was coerced.
C10_StoredSatisfiesValidator ==
  /\ \A i \in Slots :
       (cls[i] # NoType /\ Member(i, "foo").kind = "var" /\ Member(i, "foo").validate
          /\ idict[i]["foo"] # Unset)
         => Validator(idict[i]["foo"])
  /\ \A p \in StaticVars :
       (Body[p[1]][p[2]].validate /\ sval[p] # Unset) => Validator(sval[p])

\* The classes of the program whose foo is a static variable.
StaticClasses == {c \in FamilyClasses(family) : Lookup(Raw(c), "foo").kind = "svar"}

\* What an instance of the class c reads as its static variable foo.
StaticRead(s, c) == Get(idict, s, 1, Raw(c), "foo")

\* The step is a successful assignment, from outside or in a mutator, to the
\* static variable foo of an instance whose class shares the declaration that
\* the class c uses.
AssignsStaticOf(c) ==
  /\ Assigns(last')
  /\ Assigned(last') = "foo"
  /\ last'.res = Ok(NoneV)
  /\ Member(last'.i, "foo").kind = "svar"
  /\ Owner(Internal(last'.i), "foo") = Owner(Raw(c), "foo")

\* C11: a successful assignment to a static variable through an instance of
\* the declaring class or of a subclass that does not redeclare the name makes
\* every instance of those classes, existing or constructed later, read the
\* assigned value, until the next such assignment; the instances of a class
\* with a static declaration of its own keep reading what they read before.
C11_StaticShared ==
  [][\A c \in StaticClasses :
       IF AssignsStaticOf(c)
       THEN StaticRead(sval', c) = Ok(Coerce(last'.arg).val)
       ELSE StaticRead(sval', c) = StaticRead(sval, c)]_vars

\* The value assigned through the base class is read through the subclass
\* that inherits the declaration, not through the one that redeclares it.
C11_Witness ==
  /\ cls[1] = Objt("ExtendedStatic")
  /\ cls[2] = Objt("OverridingStatic")
  /\ sval[<<"StaticVariable", "foo">>] = IntV(1)
  /\ sval[<<"OverridingStatic", "foo">>] = Unset
  /\ last.op = "read"
  /\ last.i = 1
  /\ last.n = "foo"
  /\ last.res = Ok(IntV(1))

\* What a read of the variable n of instance i gives: the stored value, else
\* the declared default, else the AttributeError of a missing value.
StoredOrDefault(i, n) ==
  IF Held(idict, sval, i, n) # Unset THEN Ok(Held(idict, sval, i, n))
  ELSE IF Member(i, n).hasdefault THEN Ok(Member(i, n).default)
  ELSE Raise("missing")

\* C12: a read of an instance or static variable, from outside where it is
\* let through or inside an accessor method of the class, returns the stored
\* value, else the declared default, and raises AttributeError when there is
\* neither.
C12_MissingRaises ==
  /\ (last.op = "read" /\ Member(last.i, last.n).kind \in {"var", "svar"}
        /\ last.res.err # "visibility")
       => last.res = StoredOrDefault(last.i, last.n)
  /\ (last.op = "call" /\ Member(last.i, last.n).body = "get"
        /\ Member(last.i, Member(last.i, last.n).target).kind \in {"var", "svar"})
       => last.res = StoredOrDefault(last.i, Member(last.i, last.n).target)

\* The accessor of a static variable that was never assigned raises.
C12_Witness ==
  /\ last.op = "call"
  /\ last.n = "getfoo"
  /\ cls[last.i] = Objt("StaticVariable")
  /\ sval[<<"StaticVariable", "foo">>] = Unset
  /\ last.res = Raise("missing")

\* The class statement, the construction or the call just performed.
Stated == last.arg
MarkedIn(d, c, mark) == \E b \in Range(MRO(d, c)) : d[b].mark = mark

\* C13: a class statement whose base chain holds a class marked final
\* raises TypeError and defines no class, so that no class ever has a final
\* class among its bases; the statement that defines the final class and the
\* construction of its instances give what they give without the mark.
C13_FinalNotExtended ==
  /\ (last.op = "class" /\ MarkedIn(defined, Stated.base, "final"))
        => last.res = Raise("TypeError") /\ defined[last.i] = NoDef
  /\ \A c \in DefIds : defined[c] # NoDef => ~MarkedIn(defined, defined[c].base, "final")
  /\ (last.op = "class" /\ Stated.mark = "final")
        => last.res = ClassStatementOf(variant, [defined EXCEPT ![last.i] = NoDef], last.i,
                                       Stated.base, "none", Stated.dict).res
  /\ (last.op = "construct" /\ defined[last.i].mark = "final")
        => last.res = Construct(variant, [defined EXCEPT ![last.i].mark = "none"], last.i)

\* A class statement naming a final class as its base has just raised.
C13_Witness ==
  /\ last.op = "class"
  /\ Stated.base # 0
  /\ defined[Stated.base].mark = "final"
  /\ last.res = Raise("TypeError")
  /\ defined[last.i] = NoDef

\* The method n is declared final by a class of the chain of base.
InheritsFinal(d, base, n) == \E b \in Range(MRO(d, base)) : d[b].dict[n].kind = "final"

\* C14: with yuppy/core.py, a class statement whose body declares anew a
\* method that a base declared final raises TypeError and defines no class;
\* one that declares none of them anew, whatever the depth of the base that
\* declared them, defines the class.
C14_FinalMethodKept ==
  (last.op = "class" /\ variant = "metaclass") =>
     /\ (\E n \in MemberNames :
            InheritsFinal(defined, Stated.base, n) /\ Stated.dict[n].kind # "absent")
          => last.res = Raise("TypeError") /\ defined[last.i] = NoDef
     /\ ( /\ \E n \in MemberNames : InheritsFinal(defined, Stated.base, n)
          /\ \A n \in MemberNames :
                InheritsFinal(defined, Stated.base, n) => Stated.dict[n].kind = "absent"
          /\ ~MarkedIn(defined, Stated.base, "final") )
          => last.res = Ok(NoneV) /\ defined[last.i] # NoDef

\* The third class of a chain whose first class declared foo final has just
\* been defined, neither subclass declaring foo.
C14_Witness ==
  /\ variant = "metaclass"
  /\ last.op = "class"
  /\ last.res = Ok(NoneV)
  /\ last.i = 3
  /\ defined[3].base = 2
  /\ defined[2].base = 1
  /\ defined[1].dict["foo"].kind = "final"
  /\ defined[2].dict["foo"].kind = "absent"
  /\ defined[3].dict["foo"].kind = "absent"

\* Some abstract method n declared in c or in one of its bases has no
\* concrete override visible from c: no class before the declaring one in
\* the chain of c declares n as something else than an abstract method.
Unoverridden(d, c, n) ==
  LET m == MRO(d, c) IN
  \E k \in DOMAIN m :
     /\ d[m[k]].dict[n].kind = "abstract"
     /\ \A j \in 1..(k - 1) : d[m[j]].dict[n].kind \in {"absent", "abstract"}
IsAbstract(d, c) ==
  d[c].mark = "abstract" \/ \E n \in MemberNames : Unoverridden(d, c, n)

\* C15: constructing an instance of a class marked abstract raises
\* TypeError, and constructing one of a subclass of it that is not abstract
\* itself succeeds.
C15_AbstractRefused ==
  last.op = "construct" =>
     /\ defined[last.i].mark = "abstract" => last.res = Raise("TypeError")
     /\ ( /\ ~IsAbstract(defined, last.i)
          /\ MarkedIn(defined, defined[last.i].base, "abstract") )
          => last.res = Ok(NoneV)

\* C16: with yuppy/core.py, constructing an instance of a class raises
\* TypeError exactly when the class is marked abstract or some abstract
\* method declared in it or in one of its bases has no concrete override
\* visible from it, and succeeds otherwise.
C16_AbstractExactly ==
  (last.op = "construct" /\ variant = "metaclass") =>
     last.res = IF IsAbstract(defined, last.i) THEN Raise("TypeError") ELSE Ok(NoneV)

\* An instance of a class that overrides the abstract method of its base has
\* just been constructed, the base refusing to be instantiated.
C16_Witness ==
  /\ variant = "metaclass"
  /\ last.op = "construct"
  /\ last.res = Ok(NoneV)
  /\ defined[last.i].base # 0
  /\ defined[defined[last.i].base].dict["foo"].kind = "abstract"
  /\ defined[defined[last.i].base].mark = "none"
  /\ Construct(variant, defined, defined[last.i].base) = Raise("TypeError")
  /\ defined[last.i].dict["foo"].kind = "method"

\* C17: instantiating an interface raises TypeError, and reading or
\* assigning through the interface a member its declaration holds raises
\* AttributeError.
C17_InterfaceClosed ==
  /\ last.op = "inew" => last.res = Raise("TypeError")
  /\ (last.op \in {"iread", "iwrite"} /\ InterfaceBody[last.c][last.n] # "absent")
        => IsAttributeError(last.res)

\* The abstract members of the interface I: the members of its declaration
\* that no assignment has replaced.
AbstractOf(im, I) == {n \in MemberNames : im[I][n] \in {"abstract", "function"}}
\* The class c has a member n, declared in its body or inherited.
Available(d, c, n) == _findattr(d, c, n).kind # "absent"

\* C18: implements(I)(C) succeeds when every abstract member of I has a
\* member of the same name available in C, and raises TypeError otherwise;
\* when it raises, no conformance set has changed.
C18_Outcome ==
  last.op = "implements" =>
     last.res = IF \A n \in AbstractOf(imem, last.c) : Available(defined, last.i, n)
                THEN Ok(NoneV) ELSE Raise("TypeError")
C18_Frame ==
  (last'.op = "implements" /\ last'.res.err # "none") => defined' = defined
C18_ImplementsChecks == []C18_Outcome /\ [][C18_Frame]_vars

\* C19: a successful implements(I)(C) makes the instances of C conform to I
\* by name and changes the answer of the nominal instanceof for no class
\* that is neither C nor a subclass of C.
C19_Step ==
  (last'.op = "implements" /\ last'.res.err = "none") =>
     /\ instanceof(variant, defined', imem', last'.i, last'.c, FALSE)
     /\ \A k \in DefIds : \A I \in Interfaces :
          (defined[k] # NoDef /\ last'.i \notin Range(MRO(defined, k)))
             => instanceof(variant, defined', imem', k, I, FALSE)
                  = instanceof(variant, defined, imem, k, I, FALSE)
C19_OwnSetOnly == [][C19_Step]_vars

\* C20: the structural instanceof returns true exactly when every abstract
\* member name of I resolves to a callable on the class of the object,
\* declared there or inherited, encapsulated or not.
C20_StructuralExactly ==
  (last.op = "instanceof" /\ last.arg = TrueV) =>
     (last.res = Ok(TrueV)
        <=> \A n \in AbstractOf(imem, last.c) : _findattr(defined, last.i, n).kind = "method")

\* C21: the nominal instanceof returns true exactly when implements has
\* recorded I for the class of the object (here: for it or for one of its
\* bases, whose conformance a subclass inherits), and false otherwise,
\* whatever members the class declares.
C21_NominalExactly ==
  (last.op = "instanceof" /\ last.arg = FalseV) =>
     (last.res = Ok(TrueV)
        <=> \E a \in Range(MRO(defined, last.i)) : <<a, last.c>> \in recorded)

\* The member n is a private or protected member of the class of i.
OwnGuarded(c, n) == Body[c][n].vis \in {"private", "protected"}

\* C22: the bodies of the methods of an encapsulated class, its initializer
\* included, run against the internal object: constructing an instance of a
\* class whose initializer assigns one of its private or protected members
\* raises no visibility error, and neither does a call from outside of a
\* public method that reads one.
C22_BodiesRunInside ==
  /\ ( /\ last.op = "new"
       /\ Decl[last.c].encapsulated
       /\ Initializer(last.c) # NoAttr
       /\ OwnGuarded(last.c, Initializer(last.c).target) )
        => last.res = Ok(NoneV)
  /\ ( /\ last.op = "call"
       /\ Decl[last.c].encapsulated
       /\ Body[last.c][last.n].kind \in {"method", "func"}
       /\ Body[last.c][last.n].vis \notin {"private", "protected"}
       /\ Body[last.c][last.n].body \in {"get", "set"}
       /\ OwnGuarded(last.c, Body[last.c][last.n].target)
       /\ edict[last.i] = [n \in Names |-> Unset] )
        => last.res.err # "visibility"

\* The static counterpart of the kind of an instance variable or method.
StaticKind(k) == IF k = "var" THEN "svar" ELSE "smethod"
Visibilities == {"public", "protected", "private"}

\* C23: static and a visibility wrapper applied to a variable or method
\* attribute x, in either order, yield the static attribute of x's kind with
\* the visibility of the wrapper and with x's type, validator, default,
\* has-default flag and function.
C23_ComposeEitherOrder ==
  \A w \in Visibilities :
    ( /\ decl.x.kind \in {"var", "method"}
      /\ decl.applied \in {<<"static", w>>, <<w, "static">>} )
      => decl.cur = [decl.x EXCEPT !.kind = StaticKind(decl.x.kind), !.vis = w]

\* C24: read through the name of an encapsulated class, a private or
\* protected member that the class declares or inherits, and that no outside
\* assignment has replaced on the class object, raises AttributeError.
C24_ClassLevelGuarded ==
  ( /\ last.op = "classread"
    /\ Lookup(Raw(last.c), last.n).vis \in {"private", "protected"}
    /\ ~ \E e \in extcls : e[1] = last.c /\ e[2] = last.n )
    => IsAttributeError(last.res)

\* The entry the name n resolves to from the class c: that of the first
\* class of the __mro__ whose __dict__ has the name.
Resolved(d, c, n) ==
  LET m == MRO(d, c)
      has == {k \in DOMAIN m : d[m[k]].dict[n].kind # "absent"}
  IN IF has = {} THEN NoEntry
     ELSE d[m[CHOOSE k \in has : \A j \in has : k <= j]].dict[n]
Declared(e) == e.kind \in {"variable", "constant", "abstract", "final"}
Protected(d, c, n) == ~IsDunder(n) /\ Declared(Resolved(d, c, n))

\* C25: in the metaclass variant a class-level assignment or deletion of a
\* name that is not __dunder__ and resolves to a declared attribute, in the
\* class or in a base, raises AttributeError and leaves the attribute table
\* of every class as it was; any other name is assigned (the class's __dict__
\* gets the value) and deleted (the entry of the class's __dict__ goes, or
\* AttributeError when it has none) as on an ordinary class.
C25_Step ==
  (last' # last /\ last'.op \in {"csetattr", "osetattr", "cdelattr"}) =>
    LET c == last'.i
        n == last'.n
    IN IF Protected(defined, c, n)
       THEN /\ IsAttributeError(last'.res)
            /\ \A k \in DefIds : __attributes__(defined', k) = __attributes__(defined, k)
            /\ defined' = defined
       ELSE IF last'.op = "cdelattr"
       THEN IF defined[c].dict[n].kind = "absent"
            THEN IsAttributeError(last'.res) /\ defined' = defined
            ELSE /\ last'.res = Ok(NoneV)
                 /\ defined' = [defined EXCEPT ![c].dict[n] = NoEntry]
       ELSE /\ last'.res = Ok(NoneV)
            /\ defined'[c].dict[n].kind = last'.arg
            /\ \A k \in DefIds, m \in ClassNames :
                  (k # c \/ m # n) => defined'[k].dict[m] = defined[k].dict[m]
C25_ClassLevelRefused == [][C25_Step]_vars

\* An assignment through a subclass to a name whose declared attribute is in
\* the base only has been refused, and so has a deletion.
C25_Witness ==
  /\ last.op = "csetattr"
  /\ last.res = Raise("override")
  /\ defined[last.i].dict[last.n].kind = "absent"
  /\ defined[last.i].base # 0
  /\ Declared(defined[defined[last.i].base].dict[last.n])

\* The class statements c derives from, c included, and the nearest of them
\* whose body declares n ("object": none).
RECURSIVE Ancestry(_)
Ancestry(c) == IF c = "object" THEN {} ELSE {c} \cup Ancestry(Decl[c].base)
RECURSIVE Nearest(_, _)
Nearest(c, n) ==
  IF c = "object" THEN "object"
  ELSE IF Body[c][n].kind # "absent" THEN c
  ELSE Nearest(Decl[c].base, n)

\* n is redeclared along the line of c: the declaration an instance of c
\* should use shadows one of a base class, or a subclass of its declaring
\* class declares n again.
Redeclared(c, n) ==
  /\ Nearest(c, n) # "object"
  /\ \/ Nearest(Decl[Nearest(c, n)].base, n) # "object"
     \/ \E b \in Classes : /\ b # Nearest(c, n) /\ Nearest(c, n) \in Ancestry(b)
                             /\ Body[b][n].kind # "absent"

\* C26: an access from outside through an instance, to a name that is
\* redeclared along the line of the instance's class, goes by the nearest
\* declaration: its visibility (refused exactly when that declaration is
\* private or protected), its kind (a constant gives its value and is not
\* assignable, a variable gives what was stored or its default) and its
\* storage (the instance's own entry, or the static value of the declaring
\* class).  The external object's __dict__ has no entry of that name.
C26_SubclassShadows ==
  ( /\ last.op \in {"read", "write", "delete"}
    /\ Decl[last.c].encapsulated
    /\ Redeclared(last.c, last.n)
    /\ edict[last.i][last.n] = Unset ) =>
    LET o == Nearest(last.c, last.n)
        D == Body[o][last.n]
    IN /\ last.res.err = "visibility" <=> D.vis \in {"private", "protected"}
       /\ (last.op = "read" /\ last.res.err = "none") =>
             CASE D.kind = "const" -> last.res.val = D.value
               [] D.kind = "var" ->
                    last.res.val = IF idict[last.i][last.n] # Unset
                                   THEN idict[last.i][last.n] ELSE D.default
               [] D.kind = "svar" ->
                    last.res.val = IF sval[<<o, last.n>>] # Unset
                                   THEN sval[<<o, last.n>>] ELSE D.default
               [] OTHER -> last.res.val = CallableV
       /\ (last.op = "write" /\ D.kind = "const" /\ D.vis = "public") =>
             last.res.err = "constant"
       /\ (last.op = "write" /\ last.res.err = "none") =>
             CASE D.kind = "var" -> idict[last.i][last.n] # Unset
               [] D.kind = "svar" -> sval[<<o, last.n>>] # Unset
               [] OTHER -> TRUE

\* An instance of the class that inherits the redeclaration has been
\* assigned and read back from outside, beside an instance of the base class.
C26_Witness ==
  /\ last.op = "read" /\ last.c = "Inheriting" /\ last.n = "foo"
  /\ last.res = Ok(IntV(1))
  /\ idict[last.i]["foo"] = IntV(1)
  /\ \E i \in Slots : cls[i] = Objt("Shadowed")

\* The instance variables of the class of the instance i.
Variables(i) == {n \in Names : Member(i, n).kind = "var"}

\* C27: an assignment from outside to an instance variable that did not
\* raise leaves what every other instance variable of the same object reads
\* as it was.
C27_Step ==
  ( /\ last'.op = "write" /\ last'.res.err = "none"
    /\ last'.n \in Variables(last'.i) ) =>
    \A m \in Variables(last'.i) \ {last'.n} :
       Get(idict', sval', last'.i, Internal(last'.i), m)
         = Get(idict, sval, last'.i, Internal(last'.i), m)
C27_Apart == [][C27_Step]_vars

\* What the variable n of the instance i holds in the dictionaries d and the
\* static values s, and what a read of it that is let through returns.
HeldIn(d, s, i, n) ==
  IF Member(i, n).kind = "svar" THEN s[<<Owner(Internal(i), n), n>>] ELSE d[i][n]
ReadIn(d, s, i, n) ==
  IF HeldIn(d, s, i, n) # Unset THEN Ok(HeldIn(d, s, i, n))
  ELSE IF Member(i, n).hasdefault THEN Ok(Member(i, n).default)
  ELSE Raise("missing")

\* The class of the MRO of the class of o whose body declares n.
DeclaringClasses(o, n) ==
  {c \in XpyClasses :
     /\ \E k \in 1..Len(getmro(XpyClass(o))) : getmro(XpyClass(o))[k] = c
     /\ XpyBody(c, n).kind # "none"}
\* The access was made in a method whose receiver is an instance of the
\* class c, or for a protected member of a subclass of c.
InsideMethodOf(c, kind) ==
  /\ access.caller.code = "method"
  /\ access.caller.self \in XpyObjects
  /\ IF kind = "ProtectedMember"
     THEN \E k \in 1..Len(getmro(XpyClass(access.caller.self))) :
             getmro(XpyClass(access.caller.self))[k] = c
     ELSE XpyClass(access.caller.self) = c

\* C28: with xpy.py, a read or an assignment of a protected or private
\* member is granted exactly when it is made inside a method whose receiver
\* is an instance of the declaring class (for a protected member, also of a
\* subclass of it); from any other code it raises AttributeError.
C28_GrantedExactlyInside ==
  \A c \in XpyClasses :
     (access.op # "none" /\ c \in DeclaringClasses(access.o, access.n)) =>
        (access.res.err = "none" <=> InsideMethodOf(c, XpyBody(c, access.n).kind))

\* C29: an assignment to an instance or static variable that raises, from
\* outside or in a method called from outside, leaves what a read of that
\* variable returns as it was, and so what any instance reads.
C29_Step ==
  ( /\ last'.op \in {"write", "call"}
    /\ last'.res.err # "none"
    /\ \/ last'.op = "write" /\ Member(last'.i, last'.n).kind \in {"var", "svar"}
       \/ /\ last'.op = "call" /\ Member(last'.i, last'.n).body = "set"
          /\ Member(last'.i, Member(last'.i, last'.n).target).kind \in {"var", "svar"} ) =>
    LET n == IF last'.op = "write" THEN last'.n ELSE Member(last'.i, last'.n).target
    IN /\ ReadIn(idict', sval', last'.i, n) = ReadIn(idict, sval, last'.i, n)
       /\ idict' = idict /\ sval' = sval
C29_FailedAssignmentKeeps == [][C29_Step]_vars

\* An assignment from outside has raised for its value on a variable that
\* held one.
C29_Witness ==
  /\ last.op = "write" /\ last.res.err = "invalid"
  /\ Member(last.i, last.n).kind \in {"var", "svar"}
  /\ HeldIn(idict, sval, last.i, last.n) # Unset

\* C30: no read of an attribute of the external object and no call of one
\* of its methods from outside returns the internal object or the class of
\* the internal object.
C30_InternalNeverLeaves ==
  (last.op \in {"read", "call"} /\ last.res.err = "none") =>
     /\ last.res.val # ClassV
     /\ \A i \in Slots : last.res.val # ObjectV(i)

====
